---- MODULE Spec2Model ----
(***************************************************************************)
(* A model of the mathllm C++ core (yasinldev/mathllm, cpp/):              *)
(*   units.cpp     unit_check and its DimensionChecker visitor             *)
(*   symbolic.cpp  integrate / diff / solve_equation / verify_equal        *)
(*   numeric.cpp   probe_equal and its NumericEvaluator visitor            *)
(*   ode.cpp       solve_ivp (fixed-step RK4) and ODEEvaluator             *)
(*                                                                         *)
(* Expressions are SymEngine trees.  A tree is a record whose field k is   *)
(* the node class: Sym(name), Int(v), Rat(num, den), Const(cname),         *)
(* Add(args), Mul(args), Pow(base, exp) and Sin/Cos/Tan/Log(arg).  The     *)
(* text handed to SymEngine::parse is represented by what parse does with  *)
(* it: [ok |-> FALSE] when parse throws, [ok |-> TRUE, ast |-> tree]       *)
(* when it returns the tree.  exp(u) is the tree Pow(E, u), as in          *)
(* SymEngine (symbolic.cpp:71 relies on it).                               *)
(***************************************************************************)
EXTENDS Integers, Sequences, FiniteSets, TLC

VARIABLES
    u_expr,     \* unit_check: the expr argument (as parse sees it)
    u_dims,     \* unit_check: the symbol_dimensions argument
    u_res,      \* unit_check: what the call produced (NoCall before it ran)
    s_expr,     \* integrate, diff: expr; solve_equation: lhs (as parse sees it)
    s_rhs,      \* solve_equation: rhs (as parse sees it)
    s_var,      \* integrate, diff, solve_equation: var
    s_op,       \* the operation of symbolic.cpp that was called
    s_res,      \* what that call produced
    s_back,     \* what diff produced when handed the text integrate returned
    p_args,     \* probe_equal: the arguments of the call
    p_pc,       \* probe_equal: where the call stands
    p_rng,      \* probe_equal: the state of the generator rng
    p_loc,      \* probe_equal: trial, the symbol to draw for, point, failures, max_errors
    p_res,      \* probe_equal: what the call produced
    p_first,    \* what the previous call of probe_equal with these arguments produced
    p_calls,    \* the number of calls of probe_equal begun
    p_work,     \* probe_equal: texts parsed, numbers drawn, evaluations made by the call
    o_args,     \* solve_ivp: the arguments of the call
    o_pc,       \* solve_ivp: where the call stands
    o_loc,      \* solve_ivp: h, t, y, step and the result under construction
    o_res,      \* solve_ivp: what the call produced
    o_first,    \* what the previous call of solve_ivp, with other tolerances, produced
    o_calls,    \* the number of calls of solve_ivp begun
    v_args,     \* verify_equal: the arguments of the call
    v_pc,       \* verify_equal: where the call stands
    v_loc,      \* verify_equal: the clock, its readings and the expanded difference
    v_res       \* verify_equal: what the call produced

u_vars == <<u_expr, u_dims, u_res>>
s_vars == <<s_expr, s_rhs, s_var, s_op, s_res, s_back>>
p_vars == <<p_args, p_pc, p_rng, p_loc, p_res, p_first, p_calls, p_work>>
o_vars == <<o_args, o_pc, o_loc, o_res, o_first, o_calls>>
v_vars == <<v_args, v_pc, v_loc, v_res>>
vars == <<u_vars, s_vars, p_vars, o_vars, v_vars>>

NoCall == [kind |-> "none"]
NoInput == [kind |-> "idle"]

\* A part of the library that no caller has entered.
UnitsIdle == u_expr = NoInput /\ u_dims = NoInput /\ u_res = NoCall
SymbolicIdle ==
    /\ s_expr = NoInput /\ s_rhs = NoInput /\ s_var = NoInput
    /\ s_op = "none" /\ s_res = NoCall /\ s_back = NoCall
ProbeIdle ==
    /\ p_args = NoInput /\ p_pc = "idle" /\ p_rng = 0 /\ p_loc = NoInput
    /\ p_res = NoCall /\ p_first = NoCall /\ p_calls = 0 /\ p_work = NoInput
OdeIdle ==
    /\ o_args = NoInput /\ o_pc = "idle" /\ o_loc = NoInput /\ o_res = NoCall
    /\ o_first = NoCall /\ o_calls = 0
VerifierIdle == v_args = NoInput /\ v_pc = "idle" /\ v_loc = NoInput /\ v_res = NoCall

(***************************************************************************)
(* Expression trees                                                        *)
(***************************************************************************)
Sym(n) == [k |-> "Sym", name |-> n]
Int_(v) == [k |-> "Int", v |-> v]
Rat(n, d) == [k |-> "Rat", num |-> n, den |-> d]
Const(c) == [k |-> "Const", cname |-> c]
Add(as) == [k |-> "Add", args |-> as]
Mul(as) == [k |-> "Mul", args |-> as]
Pow(b, e) == [k |-> "Pow", base |-> b, exp |-> e]
Fn(f, a) == [k |-> f, arg |-> a]

FuncKinds == {"Sin", "Cos", "Tan", "Log"}
IsNumber(e) == e.k \in {"Int", "Rat"}

Unparseable == [ok |-> FALSE]
Parsed(e) == [ok |-> TRUE, ast |-> e]

\* The what() of the exception SymEngine::parse throws on an Unparseable text.
ParserMessage == <<"what() of the parser">>

(***************************************************************************)
(* units.h: Dimension, a vector of seven int exponents                     *)
(*   <<length, mass, time, current, temperature, amount, luminosity>>      *)
(***************************************************************************)
Dimension(L, M, T) == <<L, M, T, 0, 0, 0, 0>>
Dimensionless == <<0, 0, 0, 0, 0, 0, 0>>
is_dimensionless(d) == \A i \in 1..7 : d[i] = 0
DimPlus(a, b) == [i \in 1..7 |-> a[i] + b[i]]
DimTimes(a, n) == [i \in 1..7 |-> a[i] * n]

(***************************************************************************)
(* units.cpp: DimensionChecker.  The visitor's state is its member result  *)
(* and the two vectors it holds by reference; a bvisit maps the state      *)
(* before the visit to the state after it.                                 *)
(***************************************************************************)
CheckerState(r, errs, warns) == [result |-> r, errors |-> errs, warnings |-> warns]
SetResult(st, r) == [st EXCEPT !.result = r]
PushError(st, msg) == [st EXCEPT !.errors = Append(@, msg)]
PushWarning(st, msg) == [st EXCEPT !.warnings = Append(@, msg)]

\* A checker for which a symbol without an entry is an error as well.
bvisit_SymbolRejecting(x, dims, st) ==
    IF x.name \in DOMAIN dims
    THEN SetResult(st, dims[x.name])
    ELSE SetResult(PushError(PushWarning(st, <<"Unknown symbol dimension: ", x.name>>),
                             <<"Unknown symbol dimension: ", x.name>>),
                   Dimensionless)

bvisit_Symbol(x, dims, st) ==
    IF x.name \in DOMAIN dims
    THEN SetResult(st, dims[x.name])
    ELSE SetResult(PushWarning(st, <<"Unknown symbol dimension: ", x.name>>), Dimensionless)

bvisit_Number(x, dims, st) == SetResult(st, Dimensionless)

bvisit_Basic(x, dims, st) ==
    SetResult(PushWarning(st, <<"Unknown expression type for dimension analysis">>),
              Dimensionless)

\* After arg->accept(*this) the member result holds the factor's dimension;
\* "result + this->result" then adds that member to itself.
MulAccumulate(st) == SetResult(st, DimPlus(st.result, st.result))

\* A checker that lets a dimensional exponent through.
PowExponentUnchecked(exp_dim) == FALSE

\* if (!exp_dim.is_dimensionless()) { errors.push_back(...); ... return; }
PowExponentCheck(exp_dim) == ~is_dimensionless(exp_dim)

RECURSIVE accept(_, _, _)
RECURSIVE AddLoop(_, _, _, _, _)
RECURSIVE MulLoop(_, _, _, _)

\* for (size_t i = 1; i < args.size(); ++i) of bvisit(Add)
AddLoop(args, i, first_dim, dims, st) ==
    IF i > Len(args)
    THEN SetResult(st, first_dim)
    ELSE LET st1 == accept(args[i], dims, st)
         IN  IF st1.result # first_dim
             THEN SetResult(
                      PushError(st1, <<"Addition/subtraction requires matching dimensions">>),
                      Dimensionless)
             ELSE AddLoop(args, i + 1, first_dim, dims, st1)

bvisit_Add(x, dims, st) ==
    IF Len(x.args) = 0
    THEN SetResult(st, Dimensionless)
    ELSE LET st0 == accept(x.args[1], dims, st)
         IN  AddLoop(x.args, 2, st0.result, dims, st0)

\* for (const auto& arg : x.get_args()) of bvisit(Mul)
MulLoop(args, i, dims, st) ==
    IF i > Len(args)
    THEN st
    ELSE MulLoop(args, i + 1, dims, MulAccumulate(accept(args[i], dims, st)))

bvisit_Mul(x, dims, st) == MulLoop(x.args, 1, dims, SetResult(st, Dimensionless))

bvisit_Pow(x, dims, st) ==
    LET st1 == accept(x.base, dims, st)
        base_dim == st1.result
        st2 == accept(x.exp, dims, st1)
        exp_dim == st2.result
    IN  IF PowExponentCheck(exp_dim)
        THEN SetResult(PushError(st2, <<"Exponent must be dimensionless">>), Dimensionless)
        ELSE IF x.exp.k = "Int"
        THEN SetResult(st2, DimTimes(base_dim, x.exp.v))
        ELSE IF x.exp.k = "Rat"
        THEN SetResult(
                 IF ~is_dimensionless(base_dim)
                 THEN PushWarning(st2, <<"Fractional power of dimensional quantity">>)
                 ELSE st2,
                 Dimensionless)
        ELSE SetResult(
                 IF ~is_dimensionless(base_dim)
                 THEN PushError(st2, <<"Non-integer power requires dimensionless base">>)
                 ELSE st2,
                 Dimensionless)

FuncName(k) ==
    CASE k = "Sin" -> "sin" [] k = "Cos" -> "cos" [] k = "Tan" -> "tan" [] k = "Log" -> "log"

\* bvisit(Sin), bvisit(Cos), bvisit(Tan), bvisit(Log): the same body, the
\* function's name in the message.
bvisit_Function(x, dims, st) ==
    LET st1 == accept(x.arg, dims, st)
    IN  SetResult(
            IF ~is_dimensionless(st1.result)
            THEN PushError(st1, <<FuncName(x.k), "() argument must be dimensionless">>)
            ELSE st1,
            Dimensionless)

\* SymEngine's double dispatch: the bvisit overload of the node's class, the
\* bvisit(const Basic&) overload for every class without one (Constant).
accept(x, dims, st) ==
    CASE x.k = "Sym" -> bvisit_Symbol(x, dims, st)
      [] x.k \in {"Int", "Rat"} -> bvisit_Number(x, dims, st)
      [] x.k = "Add" -> bvisit_Add(x, dims, st)
      [] x.k = "Mul" -> bvisit_Mul(x, dims, st)
      [] x.k = "Pow" -> bvisit_Pow(x, dims, st)
      [] x.k \in FuncKinds -> bvisit_Function(x, dims, st)
      [] OTHER -> bvisit_Basic(x, dims, st)

\* units.cpp: unit_check.  A returned UnitCheckResult; inferred is the
\* inferred_dimensions map, empty when parse threw.
unit_check(expr, dims) ==
    IF ~expr.ok
    THEN [kind |-> "return", ok |-> FALSE,
          errors |-> <<<<"Parse error: ">> \o ParserMessage>>, warnings |-> <<>>,
          inferred |-> <<>>]
    ELSE LET checker == accept(expr.ast, dims, CheckerState(Dimensionless, <<>>, <<>>))
         IN  [kind |-> "return", ok |-> (checker.errors = <<>>),
              errors |-> checker.errors, warnings |-> checker.warnings,
              inferred |-> [result |-> checker.result]]

(***************************************************************************)
(* The trees SymEngine::parse returns.  parse builds every node through    *)
(* SymEngine's constructors, so a tree it returns is canonical: an Add     *)
(* holds no Add and a Mul no Mul (flattened), at most one number, which    *)
(* get_args() yields first, and no repeated argument; a Pow of two         *)
(* numbers is folded and an integer power of a Pow or a Mul is             *)
(* distributed.  The order of the other arguments is that of a hash map:   *)
(* every order is generated.  The size of a tree is the number of its      *)
(* nodes that are not numbers.                                             *)
(***************************************************************************)
MaxNodes == 3
MaxArgs == 3

NoRepeat(s) == \A i, j \in 1..Len(s) : i # j => s[i] # s[j]
CanonArgs(s, kind) == NoRepeat(s) /\ \A i \in 1..Len(s) : s[i].k # kind
CanonPow(b, e) ==
    /\ ~(IsNumber(b) /\ IsNumber(e))
    /\ e.k = "Int" => b.k \notin {"Pow", "Mul"}

RECURSIVE ArgSeqs(_, _, _)
RECURSIVE ExprTable(_, _, _, _)

\* tab[i] holds the trees of size i, for every i <= n.  The sequences of len
\* trees of size > 0 and of size n in all.
ArgSeqs(tab, n, len) ==
    IF len = 0
    THEN IF n = 0 THEN {<<>>} ELSE {}
    ELSE UNION {LET hs == tab[i]
                    ts == ArgSeqs(tab, n - i, len - 1)
                IN  {<<h>> \o t : h \in hs, t \in ts} :
                i \in 1..(n - (len - 1))}

\* The argument lists of an Add or a Mul of size n + 1: a number first or
\* none, MaxArgs arguments at most.
ArgLists(tab, n) ==
    UNION {ArgSeqs(tab, n, len) : len \in 2..MaxArgs}
    \cup UNION {LET ts == ArgSeqs(tab, n, len)
                IN  {<<c>> \o t : c \in tab[0], t \in ts} :
                len \in 1..(MaxArgs - 1)}

\* The canonical trees of size n > 0 over the leaves L.
ExprsOfSize(L, tab, n) ==
    LET lists == ArgLists(tab, n - 1)
    IN  (IF n = 1 THEN L ELSE {})
        \cup {Fn(f, a) : f \in FuncKinds, a \in tab[n - 1]}
        \cup UNION {{Pow(p[1], p[2]) :
                        p \in {q \in tab[i] \X tab[n - 1 - i] : CanonPow(q[1], q[2])}} :
                    i \in 0..(n - 1)}
        \cup {Add(s) : s \in {t \in lists : CanonArgs(t, "Add")}}
        \cup {Mul(s) : s \in {t \in lists : CanonArgs(t, "Mul")}}

\* tab extended from the sizes below n to the sizes below max.
ExprTable(L, tab, n, max) ==
    IF n >= max
    THEN tab
    ELSE ExprTable(L, tab @@ (n :> ExprsOfSize(L, tab, n)), n + 1, max)

\* Use(e) for a canonical tree e of size max at most over the leaves L, tab
\* holding the trees of the sizes below max (the numbers at 0).  The trees
\* of size max are drawn one argument at a time.
DrawExpr(L, tab, max, Use(_)) ==
    LET n == max
    IN  \/ \E i \in 0..(n - 1) : \E e \in tab[i] : Use(e)
        \/ n = 1 /\ \E e \in L : Use(e)
        \/ \E f \in FuncKinds, a \in tab[n - 1] : Use(Fn(f, a))
        \/ \E i \in 0..(n - 1) : \E b \in tab[i], e \in tab[n - 1 - i] :
              CanonPow(b, e) /\ Use(Pow(b, e))
        \/ \E kind \in {"Add", "Mul"}, i \in 1..(n - 1), len \in 1..(MaxArgs - 1) :
              \E h \in tab[i], t \in ArgSeqs(tab, n - 1 - i, len) :
                 CanonArgs(<<h>> \o t, kind) /\ Use([k |-> kind, args |-> <<h>> \o t])
        \/ \E kind \in {"Add", "Mul"}, i \in 1..(n - 1), len \in 0..(MaxArgs - 2) :
              \E c \in tab[0], h \in tab[i], t \in ArgSeqs(tab, n - 1 - i, len) :
                 CanonArgs(<<h>> \o t, kind) /\ Use([k |-> kind, args |-> <<c, h>> \o t])

(***************************************************************************)
(* unit_check: the calls the model makes                                   *)
(***************************************************************************)
UnitLeaves == {Sym("x"), Sym("y"), Sym("z"), Const("E")}
UnitNumbers == {Int_(2), Int_(-1), Rat(1, 2)}
UnitTable == ExprTable(UnitLeaves, (0 :> UnitNumbers), 1, MaxNodes)

\* The expressions of tests/test_units.cpp, their symbols renamed to those
\* of DimMaps: x + y, x * y, x / y, x^2, sin(z), log(z), (1/2) * x * y^2
\* and 2*x + 3*x, which parse folds to 5*x; and two sums with a product
\* for a term, 2*x + y and 2*x + x^2.
UnitTests ==
    {Add(<<Sym("x"), Sym("y")>>), Mul(<<Sym("x"), Sym("y")>>),
     Mul(<<Sym("x"), Pow(Sym("y"), Int_(-1))>>), Pow(Sym("x"), Int_(2)),
     Fn("Sin", Sym("z")), Fn("Sin", Sym("x")), Fn("Log", Sym("z")),
     Mul(<<Rat(1, 2), Sym("x"), Pow(Sym("y"), Int_(2))>>),
     Mul(<<Rat(1, 2), Pow(Sym("y"), Int_(2)), Sym("x")>>),
     Mul(<<Int_(5), Sym("x")>>),
     Add(<<Mul(<<Int_(2), Sym("x")>>), Sym("y")>>),
     Add(<<Mul(<<Int_(2), Sym("x")>>), Pow(Sym("x"), Int_(2))>>)}

\* x a length and y a time (z has no entry); x a mass, y a velocity and z
\* declared dimensionless; x and y both lengths; the empty map.
DimMaps ==
    {[n \in {} |-> Dimensionless],
     [n \in {"x", "y"} |-> IF n = "x" THEN Dimension(1, 0, 0) ELSE Dimension(0, 0, 1)],
     [n \in {"x", "y"} |-> Dimension(1, 0, 0)],
     [n \in {"x", "y", "z"} |->
        IF n = "x" THEN Dimension(0, 1, 0)
        ELSE IF n = "y" THEN Dimension(1, 0, -1) ELSE Dimensionless]}

UseUnitExpr(e) == u_expr = Parsed(e)

InitUnits ==
    /\ \/ u_expr = Unparseable
       \/ \E e \in UnitTests : UseUnitExpr(e)
       \/ DrawExpr(UnitLeaves, UnitTable, MaxNodes, UseUnitExpr)
    /\ u_dims \in DimMaps
    /\ u_res = NoCall
    /\ SymbolicIdle /\ ProbeIdle /\ OdeIdle /\ VerifierIdle

UnitCheck ==
    /\ u_expr # NoInput
    /\ u_res = NoCall
    /\ u_res' = unit_check(u_expr, u_dims)
    /\ UNCHANGED <<u_expr, u_dims, s_vars, p_vars, o_vars, v_vars>>

NextUnits == UnitCheck

SpecUnits == InitUnits /\ [][NextUnits]_vars

(***************************************************************************)
(* unit_check: what the claims speak of                                    *)
(***************************************************************************)
UnitReturned == u_res.kind = "return" /\ u_expr.ok

\* The dimension the checker leaves in result after visiting e.
InferredDim(e, dims) == accept(e, dims, CheckerState(Dimensionless, <<>>, <<>>)).result

RECURSIVE Subterms(_)
Subterms(e) ==
    {e} \cup
    CASE e.k \in {"Add", "Mul"} -> UNION {Subterms(e.args[i]) : i \in 1..Len(e.args)}
      [] e.k = "Pow" -> Subterms(e.base) \cup Subterms(e.exp)
      [] e.k \in FuncKinds -> Subterms(e.arg)
      [] OTHER -> {}

\* A factor the claim gives a dimension to: a number, a symbol s, a power s^n.
PlainFactor(f) ==
    \/ IsNumber(f)
    \/ f.k = "Sym"
    \/ f.k = "Pow" /\ f.base.k = "Sym" /\ f.exp.k = "Int"
SymbolDim(s, dims) == IF s.name \in DOMAIN dims THEN dims[s.name] ELSE Dimensionless
FactorDim(f, dims) ==
    IF IsNumber(f) THEN Dimensionless
    ELSE IF f.k = "Sym" THEN SymbolDim(f, dims)
    ELSE DimTimes(SymbolDim(f.base, dims), f.exp.v)
RECURSIVE SumOfFactors(_, _, _)
SumOfFactors(args, i, dims) ==
    IF i > Len(args)
    THEN Dimensionless
    ELSE DimPlus(FactorDim(args[i], dims), SumOfFactors(args, i + 1, dims))

\* C1 (as claimed): the dimension unit_check infers for a product of
\* numbers, symbols and integer powers of symbols is the component-wise sum
\* of the factors' dimensions, whatever the order of the factors.
C1_ProductIsSumOfFactors ==
    (UnitReturned /\ u_expr.ast.k = "Mul"
        /\ \A i \in 1..Len(u_expr.ast.args) : PlainFactor(u_expr.ast.args[i]))
    => u_res.inferred.result = SumOfFactors(u_expr.ast.args, 1, u_dims)

AddMismatch(n, dims) ==
    /\ n.k = "Add"
    /\ \E i \in 2..Len(n.args) : InferredDim(n.args[i], dims) # InferredDim(n.args[1], dims)
FunctionOfDimensional(n, dims) ==
    n.k \in FuncKinds /\ ~is_dimensionless(InferredDim(n.arg, dims))
DimensionalExponent(n, dims) ==
    n.k = "Pow" /\ ~is_dimensionless(InferredDim(n.exp, dims))
SymbolicPowerOfDimensional(n, dims) ==
    /\ n.k = "Pow"
    /\ ~IsNumber(n.exp)
    /\ ~is_dimensionless(InferredDim(n.base, dims))

Exception(t, msg) == [type |-> t, what |-> msg]
ParseError(msg) == Exception("ParseError", <<"ParseError: ">> \o msg)
SymbolicError(msg) == Exception("SymbolicError", <<"SymbolicError: ">> \o msg)
NumericError(msg) == Exception("NumericError", <<"NumericError: ">> \o msg)
VerifierError(msg) == Exception("VerifierError", <<"VerifierError: ">> \o msg)
ODEError(msg) == Exception("ODEError", <<"ODEError: ">> \o msg)

MathLLMKinds ==
    {"ParseError", "SymbolicError", "NumericError", "VerifierError", "ODEError", "UnitError"}
SymEngineKinds == {"SymEngine::ParseError", "SymEngine::NotImplementedError"}

\* The direct base class of a class; std::exception is the root.
BaseClass(t) ==
    IF t \in MathLLMKinds THEN "MathLLMError"
    ELSE IF t = "MathLLMError" THEN "std::runtime_error"
    ELSE IF t \in SymEngineKinds THEN "SymEngine::SymEngineException"
    ELSE "std::exception"

RECURSIVE IsA(_, _)
\* catch (const base&) catches an exception of dynamic type t.
IsA(t, base) ==
    \/ t = base
    \/ t # "std::exception" /\ IsA(BaseClass(t), base)

\* What SymEngine::parse throws on a text it cannot parse.
SymEngineParseError == Exception("SymEngine::ParseError", ParserMessage)

\* How a function body ends.
Return(v) == [kind |-> "return", value |-> v]
Throw(ex) == [kind |-> "throw", ex |-> ex]

(***************************************************************************)
(* symbolic.cpp: the pattern integrator.  SymEngine::add, mul, div and pow *)
(* build the tree of the sum, product, quotient and power; the trees are   *)
(* kept as built (SymEngine would also reorder and fold them, which does   *)
(* not change what they denote).                                           *)
(***************************************************************************)
one == Int_(1)
minus_one == Int_(-1)
SE_add(a, b) == Add(<<a, b>>)
SE_mul(a, b) == Mul(<<a, b>>)
SE_pow(b, e) == Pow(b, e)
SE_div(a, b) == Mul(<<a, Pow(b, minus_one)>>)

RECURSIVE has_symbol(_, _)
has_symbol(e, var) ==
    CASE e.k = "Sym" -> e.name = var
      [] e.k \in {"Add", "Mul"} -> \E i \in 1..Len(e.args) : has_symbol(e.args[i], var)
      [] e.k = "Pow" -> has_symbol(e.base, var) \/ has_symbol(e.exp, var)
      [] e.k \in FuncKinds -> has_symbol(e.arg, var)
      [] OTHER -> FALSE

Unsupported == Throw(SymbolicError(<<"Unsupported integrand">>))

\* integrate_pow, the branch for the base var and an Integer exponent.
PowerRule(exponent, var) ==
    IF exponent = minus_one
    THEN Return(Fn("Log", Sym(var)))
    ELSE LET exponent_plus_one == Int_(exponent.v + 1)
         IN  Return(SE_div(SE_pow(Sym(var), exponent_plus_one), exponent_plus_one))

\* integrate_pow with the power rule for every exponent of the base var.
integrate_pow_any_exponent(pow_expr, var) ==
    LET base == pow_expr.base
        exponent == pow_expr.exp
    IN  IF base = Const("E")
        THEN IF exponent = Sym(var) THEN Return(SE_pow(base, exponent)) ELSE Unsupported
        ELSE IF base # Sym(var) THEN Unsupported
        ELSE IF exponent.k = "Int" THEN PowerRule(exponent, var)
        ELSE Return(SE_div(SE_pow(Sym(var), SE_add(exponent, one)), SE_add(exponent, one)))

integrate_pow(pow_expr, var) ==
    LET base == pow_expr.base
        exponent == pow_expr.exp
    IN  IF base = Const("E")
        THEN IF exponent = Sym(var) THEN Return(SE_pow(base, exponent)) ELSE Unsupported
        ELSE IF base # Sym(var) THEN Unsupported
        ELSE IF exponent.k = "Int" THEN PowerRule(exponent, var)
        ELSE Unsupported

\* The loop of integrate_mul without its throw: a later factor holding var
\* replaces the one kept.
RECURSIVE MulFactorsKeepLast(_, _, _, _, _)
MulFactorsKeepLast(args, i, constant, dependent, var) ==
    IF i > Len(args)
    THEN Return(<<constant, dependent>>)
    ELSE IF has_symbol(args[i], var)
         THEN MulFactorsKeepLast(args, i + 1, constant, args[i], var)
         ELSE MulFactorsKeepLast(args, i + 1, SE_mul(constant, args[i]), dependent, var)

RECURSIVE integrate_basic(_, _), AddTerms(_, _, _, _), MulFactors(_, _, _, _, _)

\* The loop of integrate_add from term i on, result holding the sum so far.
AddTerms(args, i, result, var) ==
    IF i > Len(args)
    THEN Return(result)
    ELSE LET term == integrate_basic(args[i], var)
         IN  IF term.kind = "throw"
             THEN term
             ELSE AddTerms(args, i + 1, SE_add(result, term.value), var)

integrate_add(add_expr, var) == AddTerms(add_expr.args, 1, Int_(0), var)

\* The loop of integrate_mul from factor i on; it returns the pair
\* <<constant, dependent>> or throws at a second factor holding var.
MulFactors(args, i, constant, dependent, var) ==
    IF i > Len(args)
    THEN Return(<<constant, dependent>>)
    ELSE IF has_symbol(args[i], var)
         THEN IF dependent # one
              THEN Unsupported
              ELSE MulFactors(args, i + 1, constant, args[i], var)
         ELSE MulFactors(args, i + 1, SE_mul(constant, args[i]), dependent, var)

integrate_mul(mul_expr, var) ==
    LET parts == MulFactors(mul_expr.args, 1, one, one, var)
    IN  IF parts.kind = "throw"
        THEN parts
        ELSE IF parts.value[2] = one
             THEN Return(SE_mul(mul_expr, Sym(var)))
             ELSE LET inner == integrate_basic(parts.value[2], var)
                  IN  IF inner.kind = "throw"
                      THEN inner
                      ELSE Return(SE_mul(parts.value[1], inner.value))

integrate_basic(expr, var) ==
    IF ~has_symbol(expr, var) THEN Return(SE_mul(expr, Sym(var)))
    ELSE IF expr.k = "Sym"
         THEN IF expr = Sym(var)
              THEN Return(SE_div(SE_pow(Sym(var), Int_(2)), Int_(2)))
              ELSE Return(SE_mul(expr, Sym(var)))
    ELSE IF expr.k = "Add" THEN integrate_add(expr, var)
    ELSE IF expr.k = "Mul" THEN integrate_mul(expr, var)
    ELSE IF expr.k = "Pow" THEN integrate_pow(expr, var)
    ELSE IF expr.k = "Sin"
         THEN IF expr.arg # Sym(var)
              THEN Unsupported
              ELSE Return(SE_mul(minus_one, Fn("Cos", expr.arg)))
    ELSE IF expr.k = "Cos"
         THEN IF expr.arg # Sym(var) THEN Unsupported ELSE Return(Fn("Sin", expr.arg))
    ELSE Unsupported

(***************************************************************************)
(* Text.  to_string prints a tree with __str__: a Symbol prints as its     *)
(* name and a Constant as its name too, so in the text both are the same   *)
(* identifier.  SymEngine::parse reads an identifier that names a constant *)
(* as that Constant and any other identifier as a Symbol.  The text of a   *)
(* tree is the tree with identifiers for leaves.                           *)
(***************************************************************************)
Id(n) == [k |-> "Id", name |-> n]

RECURSIVE to_string(_)
to_string(e) ==
    CASE e.k = "Sym" -> Id(e.name)
      [] e.k = "Const" -> Id(e.cname)
      [] e.k \in {"Add", "Mul"} ->
            [k |-> e.k, args |-> [i \in 1..Len(e.args) |-> to_string(e.args[i])]]
      [] e.k = "Pow" -> Pow(to_string(e.base), to_string(e.exp))
      [] e.k \in FuncKinds -> Fn(e.k, to_string(e.arg))
      [] OTHER -> e

\* The identifiers the parser reads as constants, and the constant each names.
ParserConstants == {"E", "e", "pi"}
ConstantNamed(n) == IF n \in {"E", "e"} THEN Const("E") ELSE Const(n)

RECURSIVE ReadText(_)
ReadText(t) ==
    CASE t.k = "Id" -> IF t.name \in ParserConstants THEN ConstantNamed(t.name) ELSE Sym(t.name)
      [] t.k \in {"Add", "Mul"} ->
            [k |-> t.k, args |-> [i \in 1..Len(t.args) |-> ReadText(t.args[i])]]
      [] t.k = "Pow" -> Pow(ReadText(t.base), ReadText(t.exp))
      [] t.k \in FuncKinds -> Fn(t.k, ReadText(t.arg))
      [] OTHER -> t

\* parse_expression on a text that to_string produced.
parse_expression(text) == Parsed(ReadText(text))

(***************************************************************************)
(* SymEngine::diff, by the rules of differentiation.                       *)
(***************************************************************************)
RECURSIVE SE_diff(_, _)

\* The product rule: the sum over i of the product with factor i replaced
\* by its derivative.
DiffProduct(args, var) ==
    Add([i \in 1..Len(args) |->
            Mul([j \in 1..Len(args) |->
                    IF j = i THEN SE_diff(args[j], var) ELSE args[j]])])

DiffPow(b, e, var) ==
    IF e.k = "Int"
    THEN Mul(<<e, Pow(b, Int_(e.v - 1)), SE_diff(b, var)>>)
    ELSE Mul(<<Pow(b, e),
               Add(<<Mul(<<SE_diff(e, var), Fn("Log", b)>>),
                     Mul(<<e, SE_diff(b, var), Pow(b, minus_one)>>)>>)>>)

SE_diff(e, var) ==
    CASE e.k = "Sym" -> IF e.name = var THEN one ELSE Int_(0)
      [] e.k = "Add" -> Add([i \in 1..Len(e.args) |-> SE_diff(e.args[i], var)])
      [] e.k = "Mul" -> DiffProduct(e.args, var)
      [] e.k = "Pow" -> DiffPow(e.base, e.exp, var)
      [] e.k = "Sin" -> Mul(<<Fn("Cos", e.arg), SE_diff(e.arg, var)>>)
      [] e.k = "Cos" -> Mul(<<minus_one, Fn("Sin", e.arg), SE_diff(e.arg, var)>>)
      [] e.k = "Tan" ->
            Mul(<<Add(<<one, Pow(Fn("Tan", e.arg), Int_(2))>>), SE_diff(e.arg, var)>>)
      [] e.k = "Log" -> Mul(<<Pow(e.arg, minus_one), SE_diff(e.arg, var)>>)
      [] OTHER -> Int_(0)

(***************************************************************************)
(* symbolic.cpp: integrate, diff, solve_equation.  The body of each is a   *)
(* try block with the same two handlers.                                   *)
(***************************************************************************)
\* Handlers that pass the parser's failure on as a ParseError.
RethrownAsParseError(ex) == ParseError(ex.what)

\* A body that is not inside a try block.
NoTryCatch(body) == body

\* throw SymbolicError(ex.what()), the body of both handlers.
Rethrown(ex) == SymbolicError(ex.what)

\* catch (const SymEngine::SymEngineException&) and catch (const
\* std::exception&) around a body that ended as the outcome body.
TryCatch(body) ==
    IF body.kind # "throw" THEN body
    ELSE IF IsA(body.ex.type, "SymEngine::SymEngineException") THEN Throw(Rethrown(body.ex))
    ELSE IF IsA(body.ex.type, "std::exception") THEN Throw(Rethrown(body.ex))
    ELSE body

\* SymEngine::parse on the text a caller passed.
Parse(expr) == IF expr.ok THEN Return(expr.ast) ELSE Throw(SymEngineParseError)

integrate(expr, var) ==
    TryCatch(LET parsed == Parse(expr)
             IN  IF parsed.kind = "throw" THEN parsed
                 ELSE LET result == integrate_basic(parsed.value, var)
                      IN  IF result.kind = "throw" THEN result
                          ELSE Return(to_string(result.value)))

diff(expr, var) ==
    TryCatch(LET parsed == Parse(expr)
             IN  IF parsed.kind = "throw" THEN parsed
                 ELSE Return(to_string(SE_diff(parsed.value, var))))

\* A piece of literal text inside a rendered list.
Lit(str) == [k |-> "Lit", s |-> str]

RECURSIVE JoinParts(_, _)
\* parts[i] followed by ", " unless it is the last, from part i on.
JoinParts(parts, i) ==
    IF i > Len(parts) THEN <<>>
    ELSE <<parts[i]>> \o (IF i + 1 <= Len(parts) THEN <<Lit(", ")>> ELSE <<>>)
                      \o JoinParts(parts, i + 1)

\* A set as SymEngine::solve returns it: a FiniteSet with its container in
\* the container's own order, or a set of another class.
FiniteSetOf(elements) == [cls |-> "FiniteSet", container |-> elements]
OtherSet(name) == [cls |-> name]

solutions_to_string(set) ==
    IF set.cls = "FiniteSet"
    THEN IF set.container = <<>>
         THEN <<Lit("[]")>>
         ELSE <<Lit("[")>>
              \o JoinParts([i \in 1..Len(set.container) |-> to_string(set.container[i])], 1)
              \o <<Lit("]")>>
    ELSE <<Lit(set.cls)>>

\* solved is how SymEngine::solve(lhs - rhs, var) ended.
solve_equation(lhs, rhs, var, solved) ==
    TryCatch(LET parsed_lhs == Parse(lhs)
                 parsed_rhs == Parse(rhs)
             IN  IF parsed_lhs.kind = "throw" THEN parsed_lhs
                 ELSE IF parsed_rhs.kind = "throw" THEN parsed_rhs
                 ELSE IF solved.kind = "throw" THEN solved
                 ELSE Return(solutions_to_string(solved.value)))

(***************************************************************************)
(* symbolic.cpp: the calls the model makes                                 *)
(***************************************************************************)
SymMaxNodes == 3

SymLeaves == {Sym("x"), Sym("y"), Const("E")}
SymNumbers == {Int_(2), Int_(-1), Rat(1, 2)}
SymTable == ExprTable(SymLeaves, (0 :> SymNumbers), 1, SymMaxNodes)

\* Integrands no rule covers: sin(2*x), cos(x + 2), (x + 2)^2, e^(2*x),
\* x + tan(x) + 2, y*tan(x), x^2 + x^(1/2) + sin(x).
SymUnsupported ==
    {Fn("Sin", Mul(<<Int_(2), Sym("x")>>)),
     Fn("Cos", Add(<<Sym("x"), Int_(2)>>)),
     Pow(Add(<<Sym("x"), Int_(2)>>), Int_(2)),
     Pow(Const("E"), Mul(<<Int_(2), Sym("x")>>)),
     Add(<<Sym("x"), Fn("Tan", Sym("x")), Int_(2)>>),
     Mul(<<Sym("y"), Fn("Tan", Sym("x"))>>),
     Add(<<Pow(Sym("x"), Int_(2)), Pow(Sym("x"), Rat(1, 2)), Fn("Sin", Sym("x"))>>)}

\* Products of three factors: x^2*y*2, sin(x)*y*x, y*cos(x)*(1/2), y*2*e.
SymProducts ==
    {Mul(<<Pow(Sym("x"), Int_(2)), Sym("y"), Int_(2)>>),
     Mul(<<Fn("Sin", Sym("x")), Sym("y"), Sym("x")>>),
     Mul(<<Sym("y"), Fn("Cos", Sym("x")), Rat(1, 2)>>),
     Mul(<<Sym("y"), Int_(2), Const("E")>>)}

\* Integrands of larger size than the drawn ones: x^2 + 2*x,
\* 3*x^2 + sin(x), y*(x + x^-1), 2*e^x + cos(x), x*sin(x).
SymTests ==
    SymUnsupported \cup SymProducts \cup
    {Add(<<Pow(Sym("x"), Int_(2)), Mul(<<Int_(2), Sym("x")>>)>>),
     Add(<<Mul(<<Int_(3), Pow(Sym("x"), Int_(2))>>), Fn("Sin", Sym("x"))>>),
     Mul(<<Sym("y"), Add(<<Sym("x"), Pow(Sym("x"), Int_(-1))>>)>>),
     Add(<<Mul(<<Int_(2), Pow(Const("E"), Sym("x"))>>), Fn("Cos", Sym("x"))>>),
     Mul(<<Sym("x"), Fn("Sin", Sym("x"))>>)}

\* The variable names passed as var.
SymVars == {"x", "y", "pi"}

\* The right-hand sides passed to solve_equation.
SolveRhs == {Unparseable, Parsed(Int_(0))}

\* The ways SymEngine::solve ends: a FiniteSet of roots in container order,
\* a set of another class, or an exception of SymEngine.
SolveOutcomes ==
    {Return(FiniteSetOf(<<Int_(-1), Sym("y")>>)),
     Return(FiniteSetOf(<<Sym("y"), Int_(-1)>>)),
     Return(OtherSet("EmptySet")),
     Throw(Exception("SymEngine::NotImplementedError", <<"Not Implemented">>))}

UseSymExpr(e) == s_expr = Parsed(e)

InitSymbolic ==
    /\ \/ s_expr = Unparseable
       \/ \E e \in SymTests : UseSymExpr(e)
       \/ DrawExpr(SymLeaves, SymTable, SymMaxNodes, UseSymExpr)
    /\ s_var \in SymVars
    /\ s_rhs = NoInput
    /\ s_op = "none" /\ s_res = NoCall /\ s_back = NoCall
    /\ UnitsIdle /\ ProbeIdle /\ OdeIdle /\ VerifierIdle

Integrate ==
    /\ s_expr # NoInput /\ s_op = "none"
    /\ s_op' = "integrate"
    /\ s_res' = integrate(s_expr, s_var)
    /\ UNCHANGED <<s_expr, s_rhs, s_var, s_back, u_vars, p_vars, o_vars, v_vars>>

Diff ==
    /\ s_expr # NoInput /\ s_op = "none"
    /\ s_op' = "diff"
    /\ s_res' = diff(s_expr, s_var)
    /\ UNCHANGED <<s_expr, s_rhs, s_var, s_back, u_vars, p_vars, o_vars, v_vars>>

SolveEquation ==
    /\ s_expr # NoInput /\ s_op = "none"
    /\ \E rhs \in SolveRhs, solved \in SolveOutcomes :
          /\ s_rhs' = rhs
          /\ s_res' = solve_equation(s_expr, rhs, s_var, solved)
    /\ s_op' = "solve_equation"
    /\ UNCHANGED <<s_expr, s_var, s_back, u_vars, p_vars, o_vars, v_vars>>

\* The caller hands the text integrate returned to diff, same var.
DiffOfIntegral ==
    /\ s_op = "integrate" /\ s_res.kind = "return" /\ s_back = NoCall
    /\ s_back' = diff(parse_expression(s_res.value), s_var)
    /\ UNCHANGED <<s_expr, s_rhs, s_var, s_op, s_res, u_vars, p_vars, o_vars, v_vars>>

NextSymbolic == Integrate \/ Diff \/ SolveEquation \/ DiffOfIntegral

SpecSymbolic == InitSymbolic /\ [][NextSymbolic]_vars

(***************************************************************************)
(* integrate, diff, solve_equation: what the claims speak of               *)
(***************************************************************************)
\* The call was handed a text that SymEngine::parse rejects.
SymbolicParseFailure ==
    /\ s_op # "none"
    /\ ~s_expr.ok \/ (s_op = "solve_equation" /\ ~s_rhs.ok)

\* C7 (as claimed): on an input that cannot be parsed, integrate, diff and
\* solve_equation fail with an error of kind ParseError.
C7_ParseFailureThrowsParseError ==
    SymbolicParseFailure => s_res.kind = "throw" /\ s_res.ex.type = "ParseError"

\* C7 (amended): on an input that cannot be parsed, integrate, diff and
\* solve_equation fail with an error of kind SymbolicError whose text is
\* "SymbolicError: " followed by the parser's message.
C7_ParseFailureThrowsSymbolicError ==
    SymbolicParseFailure =>
        /\ s_res.kind = "throw"
        /\ s_res.ex.type = "SymbolicError"
        /\ s_res.ex.what = <<"SymbolicError: ">> \o ParserMessage

\* C7 witness: diff was called on a text that cannot be parsed and threw.
C7_Witness == s_op = "diff" /\ ~s_expr.ok /\ s_res.kind = "throw"

\* C8: every exception that leaves integrate, diff or solve_equation, for a
\* malformed input, a missing rule or a failure inside SymEngine, is a
\* SymbolicError, which is a std::runtime_error.
C8_OnlySymbolicErrorEscapes ==
    /\ s_res.kind = "throw" =>
          s_res.ex.type = "SymbolicError" /\ IsA(s_res.ex.type, "std::runtime_error")
    /\ s_back.kind = "throw" =>
          s_back.ex.type = "SymbolicError" /\ IsA(s_back.ex.type, "std::runtime_error")

\* C8 witness: integrate was called on a parseable integrand that no rule
\* covers, and the SymbolicError of the rule set came out as a SymbolicError.
C8_Witness ==
    /\ s_res.kind = "throw"
    /\ s_expr.ok
    /\ s_op = "integrate"
    /\ s_res.ex.what = <<"SymbolicError: ", "SymbolicError: ", "Unsupported integrand">>

(***************************************************************************)
(* Equality up to polynomial expansion.  An expression is expanded into a  *)
(* polynomial with rational coefficients over its atoms (symbols,          *)
(* constants, function applications, powers that are not integer powers):  *)
(* a set of terms <<monomial, coefficient>>, a monomial being a set of     *)
(* pairs <<atom, exponent>>.  Two expressions are equal up to expansion    *)
(* when they expand into the same polynomial.                              *)
(***************************************************************************)
RECURSIVE GCD(_, _)
GCD(a, b) == IF b = 0 THEN a ELSE GCD(b, a % b)
AbsInt(a) == IF a < 0 THEN -a ELSE a

\* The fraction n/d in lowest terms with a positive denominator.
Q(n, d) ==
    LET g == GCD(AbsInt(n), AbsInt(d))
        sgn == IF d < 0 THEN -1 ELSE 1
    IN  <<sgn * (n \div g), sgn * (d \div g)>>
QAdd(a, b) == Q(a[1] * b[2] + b[1] * a[2], a[2] * b[2])
QMul(a, b) == Q(a[1] * b[1], a[2] * b[2])
QInv(a) == Q(a[2], a[1])
QZero == <<0, 1>>

MonoAtoms(m) == {p[1] : p \in m}
MonoExp(m, a) == IF a \in MonoAtoms(m) THEN (CHOOSE p \in m : p[1] = a)[2] ELSE 0
MonoMul(m1, m2) ==
    {p \in {<<a, MonoExp(m1, a) + MonoExp(m2, a)>> : a \in MonoAtoms(m1) \cup MonoAtoms(m2)} :
        p[2] # 0}
MonoInv(m) == {<<p[1], -p[2]>> : p \in m}

PolyMonos(p) == {t[1] : t \in p}
PolyCoef(p, m) == IF m \in PolyMonos(p) THEN (CHOOSE t \in p : t[1] = m)[2] ELSE QZero
PolyAdd(p, q) ==
    {t \in {<<m, QAdd(PolyCoef(p, m), PolyCoef(q, m))>> : m \in PolyMonos(p) \cup PolyMonos(q)} :
        t[2] # QZero}
TermTimes(t, q) == {<<MonoMul(t[1], u[1]), QMul(t[2], u[2])>> : u \in q}

RECURSIVE PolyMul(_, _)
PolyMul(p, q) ==
    IF p = {} THEN {}
    ELSE LET t == CHOOSE t \in p : TRUE
         IN  PolyAdd(TermTimes(t, q), PolyMul(p \ {t}, q))

PolyOne == {<<{}, <<1, 1>>>>}
PolyAtom(a) == {<<{<<a, 1>>}, <<1, 1>>>>}

RECURSIVE PolyPow(_, _)
\* p to the integer power n; a negative power of a sum stays an atom.
PolyPow(p, n) ==
    IF n = 0 THEN PolyOne
    ELSE IF n > 0 THEN PolyMul(p, PolyPow(p, n - 1))
    ELSE IF Cardinality(p) = 1
         THEN LET t == CHOOSE t \in p : TRUE
              IN  PolyPow({<<MonoInv(t[1]), QInv(t[2])>>}, -n)
         ELSE PolyAtom([k |-> "Pow", base |-> p, exp |-> n])

RECURSIVE Expand(_), ExpandArgs(_, _, _)
\* The sum (kind "Add") or the product of the expansions of args from i on.
ExpandArgs(args, i, kind) ==
    IF i > Len(args)
    THEN IF kind = "Add" THEN {} ELSE PolyOne
    ELSE IF kind = "Add"
         THEN PolyAdd(Expand(args[i]), ExpandArgs(args, i + 1, kind))
         ELSE PolyMul(Expand(args[i]), ExpandArgs(args, i + 1, kind))

Expand(e) ==
    CASE e.k = "Int" -> IF e.v = 0 THEN {} ELSE {<<{}, <<e.v, 1>>>>}
      [] e.k = "Rat" -> {<<{}, Q(e.num, e.den)>>}
      [] e.k \in {"Add", "Mul"} -> ExpandArgs(e.args, 1, e.k)
      [] e.k = "Pow" ->
            IF e.exp.k = "Int"
            THEN PolyPow(Expand(e.base), e.exp.v)
            ELSE PolyAtom([k |-> "Pow", base |-> Expand(e.base), exp |-> Expand(e.exp)])
      [] e.k \in FuncKinds ->
            IF e.k = "Log" /\ e.arg = Const("E")
            THEN PolyOne
            ELSE PolyAtom([k |-> e.k, arg |-> Expand(e.arg)])
      [] OTHER -> PolyAtom(e)

EqualUpToExpansion(a, b) == Expand(a) = Expand(b)

\* C6 (as claimed): whenever integrate(expr, v) succeeds, diff of the
\* returned antiderivative with respect to v succeeds and gives an
\* expression equal to expr up to polynomial expansion.
C6_DiffOfIntegralIsIntegrand ==
    (s_op = "integrate" /\ s_back # NoCall) =>
        /\ s_back.kind = "return"
        /\ EqualUpToExpansion(ReadText(s_back.value), s_expr.ast)

(***************************************************************************)
(* double.  A binary floating-point number is [c, m, e]: c = "fin" for the *)
(* finite value m * 2^e with |m| < 2^PrecisionBits, c = "inf" for the      *)
(* infinity of sign m, c = "nan".  Finite values are normalised as in      *)
(* IEEE 754: 2^(PrecisionBits-1) <= |m| unless e = MinExponent             *)
(* (subnormal numbers, zero among them).  Every operation rounds the exact *)
(* result to nearest, ties to even, overflows to infinity and underflows   *)
(* gradually.  The significand is PrecisionBits wide where a double's is   *)
(* 53; zero carries no sign.                                               *)
(***************************************************************************)
PrecisionBits == 4
MaxExponent == 40
MinExponent == -(MaxExponent + 2 * PrecisionBits)

RECURSIVE Pow2(_)
Pow2(n) == IF n <= 0 THEN 1 ELSE 2 * Pow2(n - 1)
Top == Pow2(PrecisionBits)
Half == Pow2(PrecisionBits - 1)
MaxOf(a, b) == IF a < b THEN b ELSE a
MinOf(a, b) == IF a < b THEN a ELSE b

Fin(m, e) == [c |-> "fin", m |-> m, e |-> e]
Inf(sign) == [c |-> "inf", m |-> sign, e |-> 0]
NaN == [c |-> "nan", m |-> 0, e |-> 0]
Zero == Fin(0, MinExponent)
SignOf(x) == IF x.m < 0 THEN -1 ELSE 1

isnan(x) == x.c = "nan"
isinf(x) == x.c = "inf"
isfinite(x) == x.c = "fin"

RECURSIVE ShiftLeft(_, _, _), ShiftRight(_, _, _, _)
\* n * 2^e with n brought up to a full significand, e not below floor.
ShiftLeft(n, e, floor) ==
    IF n > 0 /\ n < Half /\ e > floor THEN ShiftLeft(2 * n, e - 1, floor) ELSE <<n, e>>

\* n * 2^e with n brought down to PrecisionBits bits and e up to
\* MinExponent: <<n, e, g, s>>, g the bit shifted out last and s = 1 when a
\* bit shifted out before it was set.
ShiftRight(n, e, g, s) ==
    IF n >= Top \/ e < MinExponent
    THEN IF n = 0
         THEN <<0, MinExponent, 0, MaxOf(g, s)>>
         ELSE ShiftRight(n \div 2, e + 1, n % 2, MaxOf(g, s))
    ELSE <<n, e, g, s>>

\* sign * n * 2^e for 0 <= n <= Top: n = Top carries into the exponent, an
\* exponent above MaxExponent overflows.
Packed(sign, n, e) ==
    IF n = 0 THEN Zero
    ELSE IF n = Top
         THEN IF e + 1 > MaxExponent THEN Inf(sign) ELSE Fin(sign * Half, e + 1)
    ELSE IF e > MaxExponent THEN Inf(sign) ELSE Fin(sign * n, e)

\* r = <<n, e, g, s>> as ShiftRight leaves it, rounded to nearest, ties to
\* even.
RoundedUp(sign, r) ==
    Packed(sign,
           r[1] + (IF r[3] = 1 /\ (r[4] = 1 \/ r[1] % 2 = 1) THEN 1 ELSE 0),
           r[2])

ShiftedRight(l, sticky) == ShiftRight(l[1], l[2], 0, sticky)

\* The double nearest to sign * (n + f) * 2^e, where 0 <= f < 1 and
\* sticky = 1 iff f > 0; n >= Half whenever sticky = 1.
Rounded(sign, n, e, sticky) ==
    RoundedUp(sign, ShiftedRight(ShiftLeft(n, e, MinExponent), sticky))

FNeg(x) == IF isnan(x) THEN x ELSE [x EXCEPT !.m = -x.m]
FAbs(x) == IF isnan(x) THEN x ELSE [x EXCEPT !.m = AbsInt(x.m)]

\* The double nearest to (F + f) * 2^e for an integer F of either sign,
\* 0 <= f < 1 and frac = 1 iff f > 0.
RoundedSigned(F, frac, e) ==
    Rounded(IF F >= 0 THEN 1 ELSE -1,
            IF F >= 0 THEN F ELSE IF frac = 0 THEN -F ELSE -F - 1,
            e, frac)

\* big + small, small.m = (q + f) * 2^(d - k) with d = big.e - small.e.
AlignedSum(big, k, q, frac) == RoundedSigned(big.m * Pow2(k) + q, frac, big.e - k)

\* small shifted right by d - k places, k of the d places kept for rounding.
Aligned(big, small, d, k) ==
    IF d - k > PrecisionBits + 1
    THEN AlignedSum(big, k, IF small.m > 0 THEN 0 ELSE -1, 1)
    ELSE AlignedSum(big, k, small.m \div Pow2(d - k),
                    IF small.m % Pow2(d - k) # 0 THEN 1 ELSE 0)

\* big + small for finite non-zero values with big.e >= small.e.
AddAligned(big, small) ==
    Aligned(big, small, big.e - small.e, MinOf(big.e - small.e, PrecisionBits + 2))

FAdd(a, b) ==
    IF isnan(a) \/ isnan(b) THEN NaN
    ELSE IF isinf(a) THEN (IF isinf(b) /\ b.m # a.m THEN NaN ELSE a)
    ELSE IF isinf(b) THEN b
    ELSE IF a.m = 0 THEN b
    ELSE IF b.m = 0 THEN a
    ELSE AddAligned(IF a.e >= b.e THEN a ELSE b, IF a.e >= b.e THEN b ELSE a)

FSub(a, b) == FAdd(a, FNeg(b))

FMul(a, b) ==
    IF isnan(a) \/ isnan(b) THEN NaN
    ELSE IF isinf(a) \/ isinf(b)
         THEN IF a.m = 0 \/ b.m = 0 THEN NaN ELSE Inf(SignOf(a) * SignOf(b))
    ELSE Rounded(SignOf(a) * SignOf(b), AbsInt(a.m) * AbsInt(b.m), a.e + b.e, 0)

\* x / y for significands x = <<n, e>> and y brought up to full width.
Quotient(sign, x, y) ==
    Rounded(sign, (x[1] * Pow2(PrecisionBits + 2)) \div y[1],
            x[2] - y[2] - (PrecisionBits + 2),
            IF (x[1] * Pow2(PrecisionBits + 2)) % y[1] # 0 THEN 1 ELSE 0)

FDiv(a, b) ==
    IF isnan(a) \/ isnan(b) THEN NaN
    ELSE IF isinf(a) THEN (IF isinf(b) THEN NaN ELSE Inf(SignOf(a) * SignOf(b)))
    ELSE IF isinf(b) THEN Zero
    ELSE IF b.m = 0 THEN (IF a.m = 0 THEN NaN ELSE Inf(SignOf(a)))
    ELSE IF a.m = 0 THEN Zero
    ELSE Quotient(SignOf(a) * SignOf(b),
                  ShiftLeft(AbsInt(a.m), a.e, a.e - PrecisionBits),
                  ShiftLeft(AbsInt(b.m), b.e, b.e - PrecisionBits))

\* a < b for values that are not NaN.
Below(a, b) ==
    IF isinf(a) THEN a.m < 0 /\ ~(isinf(b) /\ b.m < 0)
    ELSE IF isinf(b) THEN b.m > 0
    ELSE IF a.m < 0 /\ b.m >= 0 THEN TRUE
    ELSE IF a.m >= 0 /\ b.m <= 0 THEN FALSE
    ELSE IF a.m > 0
         THEN a.e < b.e \/ (a.e = b.e /\ a.m < b.m)
         ELSE IF a.m = 0 THEN TRUE
              ELSE b.e < a.e \/ (a.e = b.e /\ a.m < b.m)

\* The comparison operators of C++: false when an operand is NaN.
FLess(a, b) == ~isnan(a) /\ ~isnan(b) /\ Below(a, b)
FGreater(a, b) == FLess(b, a)
FLessEq(a, b) == ~isnan(a) /\ ~isnan(b) /\ ~Below(b, a)
FGreaterEq(a, b) == FLessEq(b, a)

\* std::max(a, b): (a < b) ? b : a.
FMax(a, b) == IF FLess(a, b) THEN b ELSE a

\* The double of an integer, of a fraction and of a decimal literal given
\* as floor(value / 2^e) and whether the value is above it.
FromInt(i) == Rounded(IF i < 0 THEN -1 ELSE 1, AbsInt(i), 0, 0)
FromRat(n, d) == FDiv(FromInt(n), FromInt(d))
Literal(n, e, sticky) == Rounded(1, n, e, sticky)

One == Fin(Half, 1 - PrecisionBits)
Ln2 == Literal(11629079, -24, 1)

\* floor(x) and whether x is a whole number, for finite x (|x| < 2^20).
FloorInt(x) ==
    IF x.e >= 0 THEN x.m * Pow2(x.e)
    ELSE IF -x.e > PrecisionBits + 1 THEN (IF x.m >= 0 THEN 0 ELSE -1)
    ELSE x.m \div Pow2(-x.e)
IsWhole(x) ==
    x.m = 0 \/ x.e >= 0 \/ (-x.e < PrecisionBits /\ x.m % Pow2(-x.e) = 0)

(***************************************************************************)
(* <cmath>.  The C library is not part of the repository; its functions    *)
(* are taken with the special values C fixes for them (NaN, infinities,    *)
(* zero, domain errors) and, for ordinary arguments, coarse values:        *)
(* log2 and exp2 interpolate linearly between the powers of two, sin, cos  *)
(* and tan are their first-order shapes around zero, kept within their     *)
(* ranges.                                                                 *)
(***************************************************************************)
\* log2 of a finite x > 0.
Log2(x) ==
    LET n == ShiftLeft(x.m, x.e, x.e - PrecisionBits)
    IN  FAdd(FromInt(n[2] + PrecisionBits - 1), Rounded(1, n[1] - Half, 1 - PrecisionBits, 0))

Exp2(x) ==
    IF isnan(x) THEN NaN
    ELSE IF isinf(x) THEN (IF x.m > 0 THEN x ELSE Zero)
    ELSE IF FGreaterEq(x, FromInt(MaxExponent + PrecisionBits + 1)) THEN Inf(1)
    ELSE IF FLess(x, FromInt(MinExponent - 1)) THEN Zero
    ELSE LET k == FloorInt(x)
         IN  FMul(FAdd(One, FSub(x, FromInt(k))), Rounded(1, 1, k, 0))

std_log(x) ==
    IF isnan(x) THEN NaN
    ELSE IF x.m < 0 THEN NaN
    ELSE IF isinf(x) THEN x
    ELSE IF x.m = 0 THEN Inf(-1)
    ELSE FMul(Log2(x), Ln2)

std_sin(x) ==
    IF ~isfinite(x) THEN NaN
    ELSE IF FLessEq(FAbs(x), One) THEN x
    ELSE FromInt(SignOf(x))

std_cos(x) ==
    IF ~isfinite(x) THEN NaN
    ELSE IF FLessEq(FAbs(x), FromInt(2)) THEN FSub(One, FAbs(x))
    ELSE FromInt(-1)

std_tan(x) == IF ~isfinite(x) THEN NaN ELSE x

RECURSIVE PowInt(_, _)
\* base multiplied n > 0 times.
PowInt(base, n) == IF n = 1 THEN base ELSE FMul(PowInt(base, n - 1), base)

std_pow(base, exp) ==
    IF ~isnan(exp) /\ exp.m = 0 THEN One
    ELSE IF base = One THEN One
    ELSE IF isnan(base) \/ isnan(exp) THEN NaN
    ELSE IF isinf(exp)
         THEN IF FAbs(base) = One THEN One
              ELSE IF FLess(FAbs(base), One) = (exp.m > 0) THEN Zero ELSE Inf(1)
    ELSE IF isinf(base) \/ base.m = 0
         THEN LET odd == IsWhole(exp) /\ exp.e = 0 /\ exp.m % 2 = 1
                  sign == IF base.m < 0 /\ odd THEN -1 ELSE 1
              IN  IF isinf(base) = (exp.m > 0) THEN Inf(sign) ELSE Zero
    ELSE IF IsWhole(exp) /\ FLessEq(FAbs(exp), FromInt(Top))
         THEN LET n == FloorInt(exp)
              IN  IF n > 0 THEN PowInt(base, n) ELSE FDiv(One, PowInt(base, -n))
    ELSE IF base.m < 0 /\ ~IsWhole(exp) THEN NaN
    ELSE Exp2(FMul(exp, Log2(FAbs(base))))

(***************************************************************************)
(* numeric.cpp: NumericEvaluator.  A visit ends with the value it left in  *)
(* result or with the NumericError it threw.                               *)
(***************************************************************************)
RECURSIVE evaluate_at_point(_, _), FoldArgs(_, _, _, _, _)

\* The loop of bvisit(Add) (kind "Add") or bvisit(Mul) from argument i on,
\* result holding the sum or the product so far.
FoldArgs(args, i, kind, result, values) ==
    IF i > Len(args)
    THEN Return(result)
    ELSE LET arg == evaluate_at_point(args[i], values)
         IN  IF arg.kind = "throw" THEN arg
             ELSE FoldArgs(args, i + 1, kind,
                           IF kind = "Add" THEN FAdd(result, arg.value)
                           ELSE FMul(result, arg.value),
                           values)

\* std::sin, std::cos, std::tan, std::log applied by the bvisit of kind k.
ApplyFunction(k, x) ==
    CASE k = "Sin" -> std_sin(x)
      [] k = "Cos" -> std_cos(x)
      [] k = "Tan" -> std_tan(x)
      [] k = "Log" -> std_log(x)

evaluate_at_point(e, values) ==
    CASE e.k = "Sym" ->
            IF e.name \in DOMAIN values
            THEN Return(values[e.name])
            ELSE Throw(NumericError(<<"Undefined symbol: ", e.name>>))
      [] e.k = "Int" -> Return(FromInt(e.v))
      [] e.k = "Rat" -> Return(FromRat(e.num, e.den))
      [] e.k = "Add" -> FoldArgs(e.args, 1, "Add", Zero, values)
      [] e.k = "Mul" -> FoldArgs(e.args, 1, "Mul", One, values)
      [] e.k = "Pow" ->
            LET base == evaluate_at_point(e.base, values)
                exp == evaluate_at_point(e.exp, values)
            IN  IF base.kind = "throw" THEN base
                ELSE IF exp.kind = "throw" THEN exp
                ELSE Return(std_pow(base.value, exp.value))
      [] e.k \in FuncKinds ->
            LET arg == evaluate_at_point(e.arg, values)
            IN  IF arg.kind = "throw" THEN arg
                ELSE Return(ApplyFunction(e.k, arg.value))
      [] OTHER ->
            Throw(NumericError(<<"Unsupported expression type for numeric evaluation">>))

(***************************************************************************)
(* numeric.cpp: probe_equal, statement by statement.                       *)
(*   validate  the three argument checks                       (132-142)   *)
(*   parse     SymEngine::parse of lhs and rhs                 (144-152)   *)
(*   seed      rng(seed), dist, failures, max_errors           (154-159)   *)
(*   draw      the trial loop: a value for each symbol, then   (161-199)   *)
(*             the two evaluations and the error of the trial              *)
(*   return    the ProbeResult                                 (201-208)   *)
(***************************************************************************)
Tenth == Literal(13421772, -27, 1)
NearZero == Literal(14411518, -57, 1)

\* std::mt19937 and generate_canonical: the generator is a state machine
\* whose state the seed fixes; a draw advances it and yields a number in
\* [0, 1).  It has RngModulus states where the Mersenne twister has 2^19937.
RngBits == 4
RngModulus == Pow2(RngBits)

\* A generator that keeps the state it was left in.
KeepRng(seed, previous) == previous

SeedRng(seed, previous) == seed % RngModulus
NextRng(state) == (5 * state + 3) % RngModulus
Canonical(state) == Rounded(1, state, -RngBits, 0)

\* dist(rng) of uniform_real_distribution<double>(a, b), rng already advanced.
Uniform(state, a, b) == FAdd(FMul(Canonical(state), FSub(b, a)), a)

\* The NumericError thrown for a text that cannot be parsed, e the
\* exception of the parser; and a handler that passes it on as a ParseError.
ParseFailureAsParseError(e) == ParseError(e.what)
ParseFailure(e) == NumericError(<<"Parse error: ">> \o e.what)

\* Argument checks that let everything through.
NoArgumentError(args) == <<>>

\* The text of the NumericError the argument checks throw, <<>> when the
\* arguments pass.
ArgumentError(args) ==
    IF args.symbols = <<>> THEN <<"No symbols provided for numeric probe">>
    ELSE IF args.trials <= 0 THEN <<"Number of trials must be positive">>
    ELSE IF FGreaterEq(args.dmin, args.dmax)
         THEN <<"Invalid domain: min must be less than max">>
    ELSE <<>>

EmptyPoint == [n \in {} |-> Zero]
NoWork == [parses |-> 0, draws |-> 0, evals |-> 0]
\* The locals of the call; invalid notes, for every trial made, whether it
\* took one of the two branches that end in continue.
FreshFrame ==
    [trial |-> 0, i |-> 1, point |-> EmptyPoint, failures |-> 0, max_errors |-> <<>>,
     invalid |-> <<>>]

ProbeValidate ==
    /\ p_pc = "validate"
    /\ LET msg == ArgumentError(p_args)
       IN  IF msg # <<>>
           THEN p_res' = Throw(NumericError(msg)) /\ p_pc' = "done"
           ELSE p_res' = p_res /\ p_pc' = "parse"
    /\ UNCHANGED <<p_args, p_rng, p_loc, p_first, p_calls, p_work, u_vars, s_vars, o_vars, v_vars>>

ProbeParse ==
    /\ p_pc = "parse"
    /\ p_work' = [p_work EXCEPT !.parses = IF p_args.lhs.ok THEN 2 ELSE 1]
    /\ IF p_args.lhs.ok /\ p_args.rhs.ok
       THEN p_res' = p_res /\ p_pc' = "seed"
       ELSE /\ p_res' = Throw(ParseFailure(SymEngineParseError))
            /\ p_pc' = "done"
    /\ UNCHANGED <<p_args, p_rng, p_loc, p_first, p_calls, u_vars, s_vars, o_vars, v_vars>>

ProbeSeed ==
    /\ p_pc = "seed"
    /\ p_rng' = SeedRng(p_args.seed, p_rng)
    /\ p_loc' = FreshFrame
    /\ p_pc' = IF 0 < p_args.trials THEN "draw" ELSE "return"
    /\ UNCHANGED <<p_args, p_res, p_first, p_calls, p_work, u_vars, s_vars, o_vars, v_vars>>

\* One pass of the inner loop: a value for the symbol at position i.
ProbeDraw ==
    /\ p_pc = "draw"
    /\ p_loc.i <= Len(p_args.symbols)
    /\ \E state \in {NextRng(p_rng)} :
          \E drawn \in {Uniform(state, p_args.dmin, p_args.dmax)} :
             \E value \in {IF FLess(FAbs(drawn), NearZero)
                            THEN FAdd(p_args.dmin, Tenth) ELSE drawn} :
                /\ p_rng' = state
                /\ p_loc' = [p_loc EXCEPT !.i = @ + 1,
                                          !.point = (p_args.symbols[p_loc.i] :> value) @@ @]
    /\ p_work' = [p_work EXCEPT !.draws = @ + 1]
    /\ UNCHANGED <<p_args, p_pc, p_res, p_first, p_calls, u_vars, s_vars, o_vars, v_vars>>

\* The error of a trial whose two sides evaluated to lhs_val and rhs_val.
RelError(abs_error, rhs_val) == FDiv(abs_error, FAdd(FAbs(rhs_val), NearZero))
MaxError(abs_error, rhs_val) == FMax(abs_error, RelError(abs_error, rhs_val))
TrialError(lhs_val, rhs_val) == MaxError(FAbs(FSub(lhs_val, rhs_val)), rhs_val)

\* The rest of a trial, the point being complete: what is pushed on
\* max_errors and whether the trial counts as a failure.
\* A comparison that counts an error equal to the threshold as well.
JudgedFromThreshold(error, threshold) ==
    [error |-> error, failed |-> FGreaterEq(error, threshold), invalid |-> FALSE]

Judged(error, threshold) ==
    [error |-> error, failed |-> FGreater(error, threshold), invalid |-> FALSE]

\* A trial that records the infinite error of a failed evaluation without
\* counting it.
ComparedUncounted(lhs_val, rhs_val, threshold) ==
    IF lhs_val.kind = "throw" \/ rhs_val.kind = "throw"
    THEN [error |-> Inf(1), failed |-> FALSE, invalid |-> TRUE]
    ELSE IF ~isfinite(lhs_val.value) \/ ~isfinite(rhs_val.value)
         THEN [error |-> Inf(1), failed |-> FALSE, invalid |-> TRUE]
         ELSE Judged(TrialError(lhs_val.value, rhs_val.value), threshold)

\* lhs_val and rhs_val are what the two evaluations returned or threw; the
\* second is not looked at when the first threw.
Compared(lhs_val, rhs_val, threshold) ==
    IF lhs_val.kind = "throw" \/ rhs_val.kind = "throw"
    THEN [error |-> Inf(1), failed |-> TRUE, invalid |-> TRUE]
    ELSE IF ~isfinite(lhs_val.value) \/ ~isfinite(rhs_val.value)
         THEN [error |-> Inf(1), failed |-> TRUE, invalid |-> TRUE]
         ELSE Judged(TrialError(lhs_val.value, rhs_val.value), threshold)

TrialOutcome(lhs, rhs, point, threshold) ==
    Compared(evaluate_at_point(lhs, point), evaluate_at_point(rhs, point), threshold)

ProbeTrial ==
    /\ p_pc = "draw"
    /\ p_loc.i > Len(p_args.symbols)
    /\ \E out \in {TrialOutcome(p_args.lhs.ast, p_args.rhs.ast, p_loc.point,
                                 p_args.threshold)} :
          p_loc' = [trial |-> p_loc.trial + 1,
                    i |-> 1,
                    point |-> EmptyPoint,
                    failures |-> p_loc.failures + (IF out.failed THEN 1 ELSE 0),
                    max_errors |-> Append(p_loc.max_errors, out.error),
                    invalid |-> Append(p_loc.invalid, out.invalid)]
    /\ p_pc' = IF p_loc.trial + 1 < p_args.trials THEN "draw" ELSE "return"
    /\ p_work' = [p_work EXCEPT !.evals = @ + 1]
    /\ UNCHANGED <<p_args, p_rng, p_res, p_first, p_calls, u_vars, s_vars, o_vars, v_vars>>

ProbeResult(equal, trials_executed, failures, max_errors) ==
    [equal |-> equal, trials_executed |-> trials_executed,
     failures |-> failures, max_errors |-> max_errors]

ProbeReturn ==
    /\ p_pc = "return"
    /\ p_res' = Return(ProbeResult(p_loc.failures = 0, p_args.trials,
                                   p_loc.failures, p_loc.max_errors))
    /\ p_pc' = "done"
    /\ UNCHANGED <<p_args, p_rng, p_loc, p_first, p_calls, p_work, u_vars, s_vars, o_vars, v_vars>>

(***************************************************************************)
(* probe_equal: the calls the model makes.  A caller calls probe_equal     *)
(* and, when the call has ended, calls it again with the same arguments,   *)
(* MaxCalls times in all.                                                  *)
(***************************************************************************)
MaxTrials == 2
MaxCalls == 2

\* x, x + y, 2*x, x^2, sin(x), log(x), 1/x, pi, exp(x), pi*x.
ProbeExprs ==
    {Sym("x"), Add(<<Sym("x"), Sym("y")>>), Mul(<<Int_(2), Sym("x")>>),
     Pow(Sym("x"), Int_(2)), Fn("Sin", Sym("x")), Fn("Log", Sym("x")),
     Pow(Sym("x"), Int_(-1)), Const("pi"), Pow(Const("E"), Sym("x")),
     Mul(<<Const("pi"), Sym("x")>>)}
ProbeLhs == {Unparseable} \cup {Parsed(e) : e \in ProbeExprs}
ProbeRhs == {Unparseable, Parsed(Sym("x")), Parsed(Mul(<<Int_(2), Sym("x")>>))}
ProbeSymbols == {<<>>, <<"x">>, <<"x", "y">>}
ProbeSeeds == {1, 7}

\* [-1, 1], [1/2, 2], [0, 1/16] and the empty [1, 1].
ProbeDomains ==
    {<<FromInt(-1), One>>, <<FromRat(1, 2), FromInt(2)>>,
     <<Zero, FromRat(1, 16)>>, <<One, One>>}

\* 1e-6 and 1/2.
ProbeThresholds == {Literal(8796093, -43, 1), FromRat(1, 2)}

\* The largest double, DBL_MAX, and half of it.
Largest == Fin(Top - 1, MaxExponent)
HalfLargest == Fin(Half, MaxExponent)

\* Calls at the ends of the range of double: x against -x on
\* [DBL_MAX/2, DBL_MAX] with the thresholds 1/2, DBL_MAX and infinity.
ProbeExtremes ==
    [lhs : {Parsed(Sym("x"))}, rhs : {Parsed(Mul(<<Int_(-1), Sym("x")>>))},
     symbols : {<<"x">>}, trials : 1..MaxTrials, seed : ProbeSeeds,
     dmin : {HalfLargest}, dmax : {Largest},
     threshold : {FromRat(1, 2), Largest, Inf(1)}]

\* Calls in which a draw is zero: on [-0.1, 0.1], whose middle is the first
\* draw of the seed 1, and on [0, 1/16] with the seed 9, whose first draw
\* is dmin.
ProbeAroundZero ==
    [lhs : {Parsed(Sym("x"))}, rhs : {Parsed(Sym("x"))},
     symbols : {<<"x">>, <<"x", "y">>}, trials : 1..MaxTrials, seed : ProbeSeeds,
     dmin : {FNeg(Tenth)}, dmax : {Tenth}, threshold : {FromRat(1, 2)}]
    \cup
    [lhs : {Parsed(Sym("x"))}, rhs : {Parsed(Sym("x"))},
     symbols : {<<"x">>, <<"x", "y">>}, trials : 1..MaxTrials, seed : {9},
     dmin : {Zero}, dmax : {FromRat(1, 16)}, threshold : {FromRat(1, 2)}]

InitProbe ==
    /\ \/ \E lhs \in ProbeLhs, symbols \in ProbeSymbols, trials \in 0..MaxTrials,
             seed \in ProbeSeeds, domain \in ProbeDomains, threshold \in ProbeThresholds :
             \E rhs \in {lhs} \cup ProbeRhs :
                p_args = [lhs |-> lhs, rhs |-> rhs, symbols |-> symbols, trials |-> trials,
                          seed |-> seed, dmin |-> domain[1], dmax |-> domain[2],
                          threshold |-> threshold]
       \/ p_args \in ProbeExtremes \cup ProbeAroundZero
    /\ p_pc = "validate"
    /\ p_rng = 0
    /\ p_loc = FreshFrame
    /\ p_res = NoCall /\ p_first = NoCall
    /\ p_calls = 1
    /\ p_work = NoWork
    /\ UnitsIdle /\ SymbolicIdle /\ OdeIdle /\ VerifierIdle

\* The call has ended; the caller makes the same call again.
ProbeAgain ==
    /\ p_pc = "done"
    /\ p_calls < MaxCalls
    /\ p_first' = p_res
    /\ p_res' = NoCall
    /\ p_calls' = p_calls + 1
    /\ p_work' = NoWork
    /\ p_pc' = "validate"
    /\ UNCHANGED <<p_args, p_rng, p_loc, u_vars, s_vars, o_vars, v_vars>>

NextProbe ==
    \/ ProbeValidate \/ ProbeParse \/ ProbeSeed \/ ProbeDraw
    \/ ProbeTrial \/ ProbeReturn \/ ProbeAgain

SpecProbe == InitProbe /\ [][NextProbe]_vars

(***************************************************************************)
(* probe_equal: what the claims speak of                                   *)
(***************************************************************************)
RECURSIVE EverywhereDefined(_, _)
\* e is built from numbers, the constants, the symbols of the list, sums,
\* products, powers with a positive integer exponent, exp, sin and cos: it
\* has a finite value at every point.
EverywhereDefined(e, symbols) ==
    CASE e.k \in {"Int", "Rat", "Const"} -> TRUE
      [] e.k = "Sym" -> \E i \in 1..Len(symbols) : symbols[i] = e.name
      [] e.k \in {"Add", "Mul"} ->
            \A i \in 1..Len(e.args) : EverywhereDefined(e.args[i], symbols)
      [] e.k = "Pow" ->
            /\ EverywhereDefined(e.base, symbols)
            /\ EverywhereDefined(e.exp, symbols)
            /\ (e.exp.k = "Int" /\ e.exp.v > 0) \/ e.base = Const("E")
      [] e.k \in {"Sin", "Cos"} -> EverywhereDefined(e.arg, symbols)
      [] OTHER -> FALSE

\* C3 (as claimed): for an expression e that is finite at every point, with
\* all its symbols listed, probe_equal(e, e, ...) returns equal = true and
\* failures = 0, whatever kinds of node e is made of.
C3_SameExpressionIsEqual ==
    (/\ p_res.kind = "return"
     /\ p_args.lhs = p_args.rhs
     /\ EverywhereDefined(p_args.lhs.ast, p_args.symbols))
    => p_res.value.equal /\ p_res.value.failures = 0

\* C4: a call of probe_equal returns what the previous call with the same
\* arguments returned: equal, trials_executed, failures and every element
\* of max_errors.
C4_SameArgumentsSameResult ==
    (p_calls >= 2 /\ p_pc = "done") => p_res = p_first

\* C4 witness: the second of two calls returned, with two trials whose
\* errors are finite and differ (they depend on the numbers drawn).
C4_Witness ==
    /\ p_calls = 2 /\ p_pc = "done" /\ p_res.kind = "return"
    /\ Len(p_res.value.max_errors) = 2
    /\ isfinite(p_res.value.max_errors[1]) /\ isfinite(p_res.value.max_errors[2])
    /\ p_res.value.max_errors[1] # p_res.value.max_errors[2]

\* unit_check, or probe_equal with arguments that pass its checks, was handed
\* a text that cannot be parsed, and has ended.
UnitParseFailure == u_res # NoCall /\ ~u_expr.ok
ProbeParseFailure ==
    /\ p_pc = "done"
    /\ p_args.symbols # <<>> /\ p_args.trials > 0 /\ FLess(p_args.dmin, p_args.dmax)
    /\ ~p_args.lhs.ok \/ ~p_args.rhs.ok

\* C9 (as claimed): probe_equal and unit_check fail with an error of kind
\* ParseError on an expression that cannot be parsed.
C9_ParseFailureThrowsParseError ==
    /\ UnitParseFailure => u_res.kind = "throw" /\ u_res.ex.type = "ParseError"
    /\ ProbeParseFailure => p_res.kind = "throw" /\ p_res.ex.type = "ParseError"

\* C9 (amended): on an expression that cannot be parsed, probe_equal fails
\* with a NumericError whose text is "NumericError: Parse error: " and the
\* parser's message, and unit_check throws nothing: it returns a result
\* with ok = false, the one error "Parse error: " and the parser's message,
\* no warning and no inferred dimension.
C9_ParseFailureReported ==
    /\ UnitParseFailure =>
          /\ u_res.kind = "return" /\ ~u_res.ok
          /\ u_res.errors = <<<<"Parse error: ">> \o ParserMessage>>
          /\ u_res.warnings = <<>> /\ u_res.inferred = <<>>
    /\ ProbeParseFailure =>
          /\ p_res.kind = "throw" /\ p_res.ex.type = "NumericError"
          /\ p_res.ex.what = <<"NumericError: ", "Parse error: ">> \o ParserMessage

\* C9 witness: probe_equal parsed lhs, failed to parse rhs and threw.
C9_Witness ==
    /\ ProbeParseFailure /\ p_args.lhs.ok /\ p_res.kind = "throw"
    /\ p_work.parses = 2

\* The arguments are of the kind probe_equal is to reject.
ArgumentsInvalid ==
    p_args.symbols = <<>> \/ p_args.trials <= 0 \/ FGreaterEq(p_args.dmin, p_args.dmax)

\* C10: a call with an empty symbol list, a trial count <= 0 or
\* dmin >= dmax never parses a text, draws a number or evaluates anything,
\* and ends by throwing a NumericError.
C10_InvalidArgumentsRejectedFirst ==
    ArgumentsInvalid =>
        /\ p_work = NoWork
        /\ p_pc \in {"validate", "done"}
        /\ p_pc = "done" => p_res.kind = "throw" /\ p_res.ex.type = "NumericError"

\* C10 witness: a call with no trials and an lhs that cannot be parsed ended
\* with the NumericError of the trial count.
C10_Witness ==
    /\ p_pc = "done" /\ p_args.symbols # <<>> /\ p_args.trials = 0 /\ ~p_args.lhs.ok
    /\ p_res = Throw(NumericError(<<"Number of trials must be positive">>))

SpecParsing == (InitUnits \/ InitProbe) /\ [][NextUnits \/ NextProbe]_vars

(***************************************************************************)
(* ode.cpp: ODEEvaluator.  subs replaces the symbols of the list by the    *)
(* doubles t and y[i]; eval_double evaluates what is left and throws an    *)
(* exception of SymEngine at a symbol that was not replaced.               *)
(***************************************************************************)
EulerE == Literal(11401300, -22, 1)
Pi == Literal(13176794, -22, 1)

RECURSIVE eval_double(_, _), EvalArgs(_, _, _, _, _)
EvalArgs(args, i, kind, result, values) ==
    IF i > Len(args)
    THEN Return(result)
    ELSE LET arg == eval_double(args[i], values)
         IN  IF arg.kind = "throw" THEN arg
             ELSE EvalArgs(args, i + 1, kind,
                           IF kind = "Add" THEN FAdd(result, arg.value)
                           ELSE FMul(result, arg.value),
                           values)

eval_double(e, values) ==
    CASE e.k = "Sym" ->
            IF e.name \in DOMAIN values
            THEN Return(values[e.name])
            ELSE Throw(Exception("SymEngine::NotImplementedError",
                                 <<"Symbol cannot be evaluated.">>))
      [] e.k = "Int" -> Return(FromInt(e.v))
      [] e.k = "Rat" -> Return(FromRat(e.num, e.den))
      [] e.k = "Const" -> Return(IF e.cname = "E" THEN EulerE ELSE Pi)
      [] e.k = "Add" -> EvalArgs(e.args, 1, "Add", Zero, values)
      [] e.k = "Mul" -> EvalArgs(e.args, 1, "Mul", One, values)
      [] e.k = "Pow" ->
            LET base == eval_double(e.base, values)
                exp == eval_double(e.exp, values)
            IN  IF base.kind = "throw" THEN base
                ELSE IF exp.kind = "throw" THEN exp
                ELSE Return(std_pow(base.value, exp.value))
      [] OTHER ->
            LET arg == eval_double(e.arg, values)
            IN  IF arg.kind = "throw" THEN arg
                ELSE Return(ApplyFunction(e.k, arg.value))

RECURSIVE SubsMap(_, _, _, _)
\* subs after the assignments for the state symbols from position i on.
SubsMap(symbols, y, i, subs) ==
    IF i > Len(y) THEN subs
    ELSE SubsMap(symbols, y, i + 1, (symbols[i + 1] :> y[i]) @@ subs)

\* val as eval_double left it, or the ODEError for a NaN or an infinity.
Checked(val) ==
    IF val.kind = "throw" THEN val
    ELSE IF isnan(val.value) \/ isinf(val.value)
         THEN Throw(ODEError(<<"Invalid function evaluation: NaN or Inf">>))
         ELSE val

\* ODEEvaluator::evaluate: the value val of the returned vector {val}.
evaluate(expr, symbols, t, y) ==
    IF Len(y) # Len(symbols) - 1
    THEN Throw(ODEError(<<"Mismatch between y values and symbols">>))
    ELSE Checked(eval_double(expr, SubsMap(symbols, y, 1, (symbols[1] :> t))))

(***************************************************************************)
(* ode.cpp: solve_ivp, statement by statement.                             *)
(*   validate  the four argument checks                        (61-83)     *)
(*   parse     parse, h, t, y, the first recorded point        (85-96)     *)
(*   step      one pass of the loop: an RK4 step               (98-144)    *)
(*   finish    success, message, return                        (146-155)   *)
(***************************************************************************)
explosion_threshold == Literal(9765625, 10, 0)
EndTolerance == NearZero
HalfLiteral == FromRat(1, 2)
Six == FromInt(6)
Two == FromInt(2)

\* y[i] + scale * k for every component i.
Shifted(y, scale, k) == [i \in 1..Len(y) |-> FAdd(y[i], FMul(scale, k))]

\* (h / 6.0) * (k1[0] + 2 * k2[0] + 2 * k3[0] + k4[0])
Increment(h, k1, k2, k3, k4) ==
    FMul(FDiv(h, Six), FAdd(FAdd(FAdd(k1, FMul(Two, k2)), FMul(Two, k3)), k4))

\* The four evaluations, each from the ones before it: the increment of the
\* step, or what an evaluation threw.
Updated(h, y, k1, k2, k3, k4) ==
    IF k4.kind = "throw" THEN k4
    ELSE Return(Increment(h, k1.value, k2.value, k3.value, k4.value))

AfterK3(expr, symbols, h, t, y, k1, k2, k3) ==
    IF k3.kind = "throw" THEN k3
    ELSE Updated(h, y, k1, k2, k3,
                 evaluate(expr, symbols, FAdd(t, h), Shifted(y, h, k3.value)))

AfterK2(expr, symbols, h, t, y, k1, k2) ==
    IF k2.kind = "throw" THEN k2
    ELSE AfterK3(expr, symbols, h, t, y, k1, k2,
                 evaluate(expr, symbols, FAdd(t, FMul(HalfLiteral, h)),
                          Shifted(y, FMul(HalfLiteral, h), k2.value)))

AfterK1(expr, symbols, h, t, y, k1) ==
    IF k1.kind = "throw" THEN k1
    ELSE AfterK2(expr, symbols, h, t, y, k1,
                 evaluate(expr, symbols, FAdd(t, FMul(HalfLiteral, h)),
                          Shifted(y, FMul(HalfLiteral, h), k1.value)))

RK4(expr, symbols, h, t, y) ==
    AfterK1(expr, symbols, h, t, y, evaluate(expr, symbols, t, y))

\* An update of the first component alone.
AdvancedFirst(y, inc) == [i \in 1..Len(y) |-> IF i = 1 THEN FAdd(y[i], inc) ELSE y[i]]

\* for (i...) y[i] = y[i] + inc
Advanced(y, inc) == [i \in 1..Len(y) |-> FAdd(y[i], inc)]

ODEResult(success, t_values, y_values, steps_taken, message) ==
    [success |-> success, t_values |-> t_values, y_values |-> y_values,
     steps_taken |-> steps_taken, message |-> message]

\* Argument checks that let everything through.
OdeNoArgumentError(args) == <<>>

\* Argument checks with one more, of the tolerances.
OdeArgumentErrorWithTolerances(args) ==
    IF FLessEq(args.t1, args.t0) THEN <<"t1 must be greater than t0">>
    ELSE IF args.y0 = <<>> THEN <<"Initial conditions y0 cannot be empty">>
    ELSE IF args.symbols = <<>> THEN <<"Symbols list cannot be empty">>
    ELSE IF args.max_steps <= 0 THEN <<"max_steps must be positive">>
    ELSE IF ~FGreater(args.rtol, Zero) \/ ~FGreater(args.atol, Zero)
         THEN <<"tolerances must be positive">>
    ELSE <<>>

\* The message of the first argument check that fails, <<>> when all pass.
OdeArgumentError(args) ==
    IF FLessEq(args.t1, args.t0) THEN <<"t1 must be greater than t0">>
    ELSE IF args.y0 = <<>> THEN <<"Initial conditions y0 cannot be empty">>
    ELSE IF args.symbols = <<>> THEN <<"Symbols list cannot be empty">>
    ELSE IF args.max_steps <= 0 THEN <<"max_steps must be positive">>
    ELSE <<>>

OdeValidate ==
    /\ o_pc = "validate"
    /\ LET msg == OdeArgumentError(o_args)
       IN  IF msg # <<>>
           THEN /\ o_res' = Return(ODEResult(FALSE, <<>>, <<>>, 0, msg))
                /\ o_pc' = "done"
           ELSE o_res' = o_res /\ o_pc' = "parse"
    /\ UNCHANGED <<o_args, o_loc, o_first, o_calls, u_vars, s_vars, p_vars, v_vars>>

\* The handlers of the outer try block without the one for
\* SymEngine::ParseError.
OdeCatchAll(ex) == ODEError(<<"ODE integration failed: ">> \o ex.what)

\* The two handlers of the outer try block: what they throw for ex.
OdeCatch(ex) ==
    IF IsA(ex.type, "SymEngine::ParseError")
    THEN ParseError(<<"Failed to parse ODE expression: ">> \o ex.what)
    ELSE ODEError(<<"ODE integration failed: ">> \o ex.what)

OdeParse ==
    /\ o_pc = "parse"
    /\ IF Parse(o_args.expr).kind = "throw"
       THEN /\ o_res' = Throw(OdeCatch(Parse(o_args.expr).ex))
            /\ o_pc' = "done"
            /\ o_loc' = o_loc
       ELSE /\ o_loc' = [h |-> FDiv(FSub(o_args.t1, o_args.t0), FromInt(o_args.max_steps)),
                         t |-> o_args.t0,
                         y |-> o_args.y0,
                         step |-> 0,
                         result |-> ODEResult(FALSE, <<o_args.t0>>, <<o_args.y0>>, 0, <<>>)]
            /\ o_pc' = "step"
            /\ o_res' = o_res
    /\ UNCHANGED <<o_args, o_first, o_calls, u_vars, s_vars, p_vars, v_vars>>

\* A loop without the check of the threshold.
NeverExploded(y) == FALSE

\* A step that is not counted.
Uncounted(result) == result

\* result.steps_taken++
Counted(result) == [result EXCEPT !.steps_taken = @ + 1]

\* A loop that only the break ends.
LoopUnbounded(step, max_steps) == TRUE

\* step < max_steps, the condition of the for loop.
LoopContinues(step, max_steps) == step < max_steps

Exploded(y) == \E i \in 1..Len(y) : FGreater(FAbs(y[i]), explosion_threshold)

OdeStep ==
    /\ o_pc = "step"
    /\ \E rk4 \in {RK4(o_args.expr.ast, o_args.symbols, o_loc.h, o_loc.t, o_loc.y)},
          t \in {FAdd(o_loc.t, o_loc.h)} :
       \E stepped \in {IF rk4.kind = "throw" THEN rk4
                        ELSE Return(Advanced(o_loc.y, rk4.value))} :
       LET result == o_loc.result
           counted == Counted(result)
       IN  IF stepped.kind = "throw"
           THEN /\ o_res' = IF stepped.ex.type = "ODEError"
                            THEN Return([result EXCEPT !.message =
                                     <<"ODE evaluation failed: ">> \o stepped.ex.what])
                            ELSE Throw(OdeCatch(stepped.ex))
                /\ o_pc' = "done"
                /\ o_loc' = o_loc
           ELSE IF Exploded(stepped.value)
           THEN /\ o_res' = Return([counted EXCEPT
                                       !.message = <<"Solution exploded (exceeded threshold)">>,
                                       !.success = FALSE])
                /\ o_pc' = "done"
                /\ o_loc' = [o_loc EXCEPT !.t = t, !.y = stepped.value, !.result = counted]
           ELSE /\ o_loc' = [o_loc EXCEPT
                                !.t = t,
                                !.y = stepped.value,
                                !.step = @ + 1,
                                !.result = [counted EXCEPT
                                               !.t_values = Append(@, t),
                                               !.y_values = Append(@, stepped.value)]]
                /\ o_pc' = IF FGreaterEq(t, FSub(o_args.t1, EndTolerance))
                              \/ ~LoopContinues(o_loc.step + 1, o_args.max_steps)
                           THEN "finish" ELSE "step"
                /\ o_res' = o_res
    /\ UNCHANGED <<o_args, o_first, o_calls, u_vars, s_vars, p_vars, v_vars>>

OdeFinish ==
    /\ o_pc = "finish"
    /\ o_res' = Return([o_loc.result EXCEPT
                           !.success = TRUE,
                           !.message = <<"Integration completed successfully">>])
    /\ o_pc' = "done"
    /\ UNCHANGED <<o_args, o_loc, o_first, o_calls, u_vars, s_vars, p_vars, v_vars>>

(***************************************************************************)
(* The calls of solve_ivp that are checked.  The right-hand sides are a    *)
(* constant, the state, the time, a product that grows past the explosion  *)
(* threshold, a logarithm that leaves the reals, an expression with a      *)
(* symbol that is not in the list, and a text that does not parse.  The    *)
(* intervals include one that starts where the spacing of the doubles is   *)
(* larger than the step.                                                   *)
(***************************************************************************)
MaxSteps == 4

OdeExprs ==
    { Unparseable,
      Parsed(Int_(0)),
      Parsed(Int_(1)),
      Parsed(Sym("y")),
      Parsed(Sym("t")),
      Parsed(Mul(<<Sym("y"), Sym("y"), Sym("y")>>)),
      Parsed(Fn("Log", Add(<<Int_(-1), Sym("t")>>))),
      Parsed(Add(<<Sym("y"), Sym("w")>>)),
      Parsed(Mul(<<Const("pi"), Sym("t")>>)),
      Parsed(Add(<<Sym("y"), Mul(<<Int_(-1), Sym("z")>>)>>)) }

OdeIntervals ==
    { <<FromInt(0), FromInt(1)>>,
      <<FromInt(0), FromInt(4)>>,
      <<FromInt(1), FromInt(0)>>,
      <<FromInt(1), FromInt(1)>>,
      <<FromInt(Top), FromInt(Top + 2)>>,
      <<FromInt(0), Fin(1, MinExponent)>>,
      <<FromInt(0), Inf(1)>> }

OdeInitial ==
    { <<>>, <<NaN>>, <<FromInt(1)>>, <<Fin(Half, 30)>>, <<Fin(Half, 29)>>, <<FromInt(1), FromInt(2)>> }

OdeSymbols == { <<>>, <<"t", "y">>, <<"t">>, <<"y", "y">>, <<"t", "y", "z">> }

OdeTolerances == { <<Literal(1, -20, 0), Literal(1, -27, 0)>> }

InitOde ==
    /\ \E expr \in OdeExprs, iv \in OdeIntervals, y0 \in OdeInitial,
          symbols \in OdeSymbols, tol \in OdeTolerances, max_steps \in -1..MaxSteps :
          o_args = [expr |-> expr, t0 |-> iv[1], t1 |-> iv[2], y0 |-> y0,
                    symbols |-> symbols, rtol |-> tol[1], atol |-> tol[2],
                    max_steps |-> max_steps]
    /\ o_pc = "validate"
    /\ o_loc = NoInput
    /\ o_res = NoCall
    /\ o_first = NoCall
    /\ o_calls = 1
    /\ UnitsIdle /\ SymbolicIdle /\ ProbeIdle /\ VerifierIdle

\* The tolerances of the second call: both zero; a NaN and an infinity.
OdeOtherTolerances == { <<Zero, Zero>>, <<NaN, Inf(1)>> }

\* The call has ended; the caller makes it again with other tolerances and
\* the other arguments as they were.
OdeAgain ==
    /\ o_pc = "done"
    /\ o_calls < 2
    /\ \E tol \in OdeOtherTolerances :
          o_args' = [o_args EXCEPT !.rtol = tol[1], !.atol = tol[2]]
    /\ o_first' = o_res
    /\ o_res' = NoCall
    /\ o_loc' = NoInput
    /\ o_calls' = o_calls + 1
    /\ o_pc' = "validate"
    /\ UNCHANGED <<u_vars, s_vars, p_vars, v_vars>>

NextOde == OdeValidate \/ OdeParse \/ OdeStep \/ OdeFinish \/ OdeAgain

SpecOde == InitOde /\ [][NextOde]_vars

\* C5: in every result of solve_ivp with success = true the recorded times
\* are strictly increasing, and t_values and y_values both have
\* steps_taken + 1 entries.
OdeReturned == o_pc = "done" /\ o_res.kind = "return"

StrictlyIncreasing(ts) == \A i \in 1..(Len(ts) - 1) : FLess(ts[i], ts[i + 1])

C5_SuccessHasIncreasingTimes ==
    (OdeReturned /\ o_res.value.success)
        => /\ StrictlyIncreasing(o_res.value.t_values)
           /\ Len(o_res.value.t_values) = o_res.value.steps_taken + 1
           /\ Len(o_res.value.y_values) = o_res.value.steps_taken + 1

(***************************************************************************)
(* solve_equation: the order of the rendered roots.  The text __str__      *)
(* gives a root is compared character by character, by character code.     *)
(***************************************************************************)
RECURSIVE Digits(_)
\* The character codes of the decimal digits of n >= 0.
Digits(n) == IF n < 10 THEN <<48 + n>> ELSE Digits(n \div 10) \o <<48 + (n % 10)>>

\* The character codes of the names the model uses.
NameCodes ==
    [n \in {"x", "y", "z", "pi", "E", "e"} |->
        CASE n = "x" -> <<120>> [] n = "y" -> <<121>> [] n = "z" -> <<122>>
          [] n = "pi" -> <<112, 105>> [] n = "E" -> <<69>> [] n = "e" -> <<101>>]

\* element->__str__() of a root that is an integer or an identifier.
PrettyCodes(t) ==
    IF t.k = "Int"
    THEN (IF t.v < 0 THEN <<45>> ELSE <<>>) \o Digits(AbsInt(t.v))
    ELSE NameCodes[t.name]

RECURSIVE LexLessEq(_, _)
\* std::string's operator<= on two texts.
LexLessEq(a, b) ==
    IF a = <<>> THEN TRUE
    ELSE IF b = <<>> THEN FALSE
    ELSE IF a[1] # b[1] THEN a[1] < b[1]
    ELSE LexLessEq(Tail(a), Tail(b))

IsElement(part) == part.k # "Lit"

\* solve_equation returned the rendering of a finite set with roots.
SolvedFinite ==
    /\ s_op = "solve_equation" /\ s_res.kind = "return"
    /\ s_res.value[1] = Lit("[")

\* C11: the roots of a rendered finite solution set stand between "[" and
\* "]", separated by ", ", sorted lexicographically by their text, whatever
\* the order of the container.
C11_RootsSortedByText ==
    SolvedFinite =>
        LET roots == SelectSeq(s_res.value, IsElement)
        IN  /\ s_res.value = <<Lit("[")>> \o JoinParts(roots, 1) \o <<Lit("]")>>
            /\ \A i \in 1..(Len(roots) - 1) :
                  LexLessEq(PrettyCodes(roots[i]), PrettyCodes(roots[i + 1]))

(***************************************************************************)
(* unit_check: the rule for sums.  The dimension of a term is the one the  *)
(* rules give it: a symbol its declared dimension, a product the sum of    *)
(* its factors' dimensions, an integer power the multiple of its base's,   *)
(* a sum the dimension its terms share, everything else none.              *)
(***************************************************************************)
RECURSIVE RuleDim(_, _), RuleDimSum(_, _, _)
RuleDimSum(args, i, dims) ==
    IF i > Len(args) THEN Dimensionless
    ELSE DimPlus(RuleDim(args[i], dims), RuleDimSum(args, i + 1, dims))

RuleDim(e, dims) ==
    CASE e.k = "Sym" -> SymbolDim(e, dims)
      [] e.k = "Mul" -> RuleDimSum(e.args, 1, dims)
      [] e.k = "Pow" /\ e.exp.k = "Int" -> DimTimes(RuleDim(e.base, dims), e.exp.v)
      [] e.k = "Add" ->
            IF \A i \in 1..Len(e.args) : RuleDim(e.args[i], dims) = RuleDim(e.args[1], dims)
            THEN RuleDim(e.args[1], dims)
            ELSE Dimensionless
      [] OTHER -> Dimensionless

\* The terms of the sum n share one dimension.
TermsAgree(n, dims) ==
    \A i \in 1..Len(n.args) : RuleDim(n.args[i], dims) = RuleDim(n.args[1], dims)

\* The checker after visiting e, its vectors empty before the visit.
Visited(e, dims) == accept(e, dims, CheckerState(Dimensionless, <<>>, <<>>))

RECURSIVE TermErrors(_, _, _)
\* The number of errors the visits of the terms from position i on record.
TermErrors(args, i, dims) ==
    IF i > Len(args) THEN 0
    ELSE Len(Visited(args[i], dims).errors) + TermErrors(args, i + 1, dims)

MatchingDimensions == <<"Addition/subtraction requires matching dimensions">>

\* C12: for every Add of the expression: when its terms do not all have
\* the same dimension, the visit of the Add ends by recording the error
\* of the matching dimensions, leaves the Add dimensionless, and ok is
\* false; when they all share one dimension the visit records no error
\* beyond those of its terms and leaves the Add that dimension.
C12_AddRequiresMatchingDimensions ==
    UnitReturned =>
        \A n \in Subterms(u_expr.ast) :
            n.k = "Add" =>
                IF TermsAgree(n, u_dims)
                THEN /\ Len(Visited(n, u_dims).errors) = TermErrors(n.args, 1, u_dims)
                     /\ Visited(n, u_dims).result = RuleDim(n.args[1], u_dims)
                ELSE /\ Visited(n, u_dims).errors # <<>>
                     /\ Visited(n, u_dims).errors[Len(Visited(n, u_dims).errors)]
                            = MatchingDimensions
                     /\ Visited(n, u_dims).result = Dimensionless
                     /\ ~u_res.ok

(***************************************************************************)
(* solve_ivp: what the claims speak of                                     *)
(***************************************************************************)
\* Some component of y is beyond 1e10 in absolute value.
BeyondThreshold(y) ==
    \E i \in 1..Len(y) : FLess(explosion_threshold, FAbs(y[i]))

ExplodedMessage == <<"Solution exploded (exceeded threshold)">>

\* C13: once a step has left a component of y beyond 1e10 in absolute
\* value, the call has returned success = false with the message of the
\* explosion, holding exactly the points recorded before that step (one per
\* step before it and the initial one, none of them beyond the threshold
\* after a step); and the message is returned in no other case.
C13_ExplosionStopsIntegration ==
    /\ (o_loc # NoInput /\ o_loc.result.steps_taken > 0 /\ BeyondThreshold(o_loc.y)) =>
          /\ o_pc = "done"
          /\ o_res = Return(ODEResult(FALSE, o_loc.result.t_values, o_loc.result.y_values,
                                      o_loc.result.steps_taken, ExplodedMessage))
          /\ Len(o_res.value.t_values) = o_res.value.steps_taken
          /\ Len(o_res.value.y_values) = o_res.value.steps_taken
          /\ \A i \in 2..Len(o_res.value.y_values) : ~BeyondThreshold(o_res.value.y_values[i])
    /\ (OdeReturned /\ o_res.value.message = ExplodedMessage) =>
          o_loc # NoInput /\ BeyondThreshold(o_loc.y)

\* C13 witness: the second step left y beyond the threshold; the call
\* returned the initial point and the point of the first step.
C13_Witness ==
    /\ OdeReturned /\ o_res.value.message = ExplodedMessage
    /\ o_res.value.steps_taken = 2
    /\ Len(o_res.value.t_values) = 2
    /\ ~o_res.value.success

\* One of the four preconditions of solve_ivp is violated.
OdeArgumentsInvalid ==
    \/ FLessEq(o_args.t1, o_args.t0)
    \/ o_args.y0 = <<>>
    \/ o_args.symbols = <<>>
    \/ o_args.max_steps <= 0

\* C14: a call with t1 <= t0, an empty y0, an empty symbol list or
\* max_steps <= 0 parses and integrates nothing and throws nothing: it
\* returns success = false, steps_taken = 0, empty t_values and y_values and
\* the message of the first violated precondition in that order.
C14_InvalidArgumentsReturned ==
    OdeArgumentsInvalid =>
        /\ o_pc \in {"validate", "done"}
        /\ o_loc = NoInput
        /\ o_pc = "done" =>
              o_res = Return(ODEResult(FALSE, <<>>, <<>>, 0,
                         IF FLessEq(o_args.t1, o_args.t0)
                         THEN <<"t1 must be greater than t0">>
                         ELSE IF o_args.y0 = <<>>
                         THEN <<"Initial conditions y0 cannot be empty">>
                         ELSE IF o_args.symbols = <<>>
                         THEN <<"Symbols list cannot be empty">>
                         ELSE <<"max_steps must be positive">>))

\* C14 witness: a call with an empty y0, an empty symbol list and
\* max_steps = 0 returned the message of y0, the first of the three.
C14_Witness ==
    /\ o_pc = "done"
    /\ FLess(o_args.t0, o_args.t1)
    /\ o_args.y0 = <<>> /\ o_args.symbols = <<>> /\ o_args.max_steps = 0
    /\ o_res.kind = "return"
    /\ o_res.value.message = <<"Initial conditions y0 cannot be empty">>

(***************************************************************************)
(* symbolic.cpp: verify_equal(lhs, rhs, timeout_ms).  The steady clock is  *)
(* read in ticks, TicksPerMs ticks to the millisecond; timeout_ms is a     *)
(* double, here a whole number of ticks (timeout / TicksPerMs ms).         *)
(***************************************************************************)
TicksPerMs == 2
MaxTicks == 3

\* duration_cast<std::chrono::milliseconds>(now - start).count(): the whole
\* milliseconds in the ticks since start, the fraction dropped.
ElapsedMs(ticks) == ticks \div TicksPerMs

\* elapsed > timeout_ms, elapsed a count of whole milliseconds.
TimeoutExceeded(ticks, timeout) == ElapsedMs(ticks) * TicksPerMs > timeout

\* The three handlers of verify_equal around a body that ended as body.
VerifyCatch(body) ==
    IF body.kind # "throw" THEN body
    ELSE IF body.ex.type = "VerifierError" THEN body
    ELSE IF IsA(body.ex.type, "SymEngine::SymEngineException")
         THEN Throw(VerifierError(body.ex.what))
    ELSE IF IsA(body.ex.type, "std::exception") THEN Throw(VerifierError(body.ex.what))
    ELSE body

VerificationTimeout == Throw(VerifierError(<<"Verification timeout exceeded">>))

\* SymEngine::sub(parsed_lhs, parsed_rhs).
Sub(a, b) == Add(<<a, Mul(<<Int_(-1), b>>)>>)

\* SymEngine::is_zero on an expanded expression: "true" for zero, "false"
\* for another number, "indeterminate" when a symbol or a function is left.
is_zero(p) ==
    IF p = {} THEN "true"
    ELSE IF PolyMonos(p) = {{}} THEN "false"
    ELSE "indeterminate"

\* The last three statements of the try block.
ZeroTest(p) == IF is_zero(p) = "indeterminate" THEN FALSE ELSE is_zero(p) = "true"

\* The texts passed as lhs and rhs.
VerifyTexts ==
    {Unparseable} \cup
    {Parsed(e) : e \in
        {Int_(0), Int_(1), Sym("x"),
         Add(<<Sym("x"), Int_(1)>>),
         Pow(Add(<<Sym("x"), Int_(1)>>), Int_(2)),
         Add(<<Pow(Sym("x"), Int_(2)), Mul(<<Int_(2), Sym("x")>>), Int_(1)>>),
         Fn("Sin", Sym("x"))}}

\* The timeouts passed, in ticks.
VerifyTimeouts == {-1, 0, 1, 2, 4}

InitVerifier ==
    /\ UnitsIdle /\ SymbolicIdle /\ ProbeIdle /\ OdeIdle
    /\ v_args \in [lhs : VerifyTexts, rhs : VerifyTexts, timeout : VerifyTimeouts]
    /\ v_pc = "parse"
    /\ v_loc = [now |-> 0, checks |-> <<>>, simplified |-> {}]
    /\ v_res = NoCall

\* The two parse_expression calls and the first reading of the clock.
VerifyParse ==
    /\ v_pc = "parse"
    /\ \E d \in 0..MaxTicks :
        \E body \in {IF ~v_args.lhs.ok \/ ~v_args.rhs.ok THEN Throw(SymEngineParseError)
                     ELSE IF TimeoutExceeded(v_loc.now + d, v_args.timeout)
                          THEN VerificationTimeout
                     ELSE Return(TRUE)} :
            /\ v_loc' = [v_loc EXCEPT !.now = @ + d,
                             !.checks = IF v_args.lhs.ok /\ v_args.rhs.ok
                                        THEN Append(@, v_loc.now + d) ELSE @]
            /\ IF body.kind = "throw"
               THEN v_res' = VerifyCatch(body) /\ v_pc' = "done"
               ELSE v_res' = v_res /\ v_pc' = "expand"
    /\ UNCHANGED <<v_args, u_vars, s_vars, p_vars, o_vars>>

\* sub, expand and the second reading of the clock.
VerifyExpand ==
    /\ v_pc = "expand"
    /\ \E d \in 0..MaxTicks :
        \E body \in {IF TimeoutExceeded(v_loc.now + d, v_args.timeout)
                     THEN VerificationTimeout ELSE Return(TRUE)} :
            /\ v_loc' = [v_loc EXCEPT !.now = @ + d, !.checks = Append(@, v_loc.now + d),
                             !.simplified = Expand(Sub(v_args.lhs.ast, v_args.rhs.ast))]
            /\ IF body.kind = "throw"
               THEN v_res' = VerifyCatch(body) /\ v_pc' = "done"
               ELSE v_res' = v_res /\ v_pc' = "test"
    /\ UNCHANGED <<v_args, u_vars, s_vars, p_vars, o_vars>>

\* is_zero and the return.
VerifyTest ==
    /\ v_pc = "test"
    /\ v_res' = VerifyCatch(Return(ZeroTest(v_loc.simplified)))
    /\ v_pc' = "done"
    /\ UNCHANGED <<v_args, v_loc, u_vars, s_vars, p_vars, o_vars>>

NextVerifier == VerifyParse \/ VerifyExpand \/ VerifyTest
SpecVerifier == InitVerifier /\ [][NextVerifier]_vars

VerifyTimedOut == v_res = VerificationTimeout

\* The call is past a reading of the clock at which more time than
\* timeout_ms had passed since start.
Overrun == \E i \in DOMAIN v_loc.checks : v_loc.checks[i] > v_args.timeout

\* A finished call on parseable input threw VerifierError or returned the
\* boolean of the zero test of expand(lhs - rhs).
EndsInErrorOrZeroTest ==
    (v_pc = "done" /\ v_args.lhs.ok /\ v_args.rhs.ok) =>
        \/ v_res.kind = "throw" /\ v_res.ex.type = "VerifierError"
        \/ v_res = Return(ZeroTest(Expand(Sub(v_args.lhs.ast, v_args.rhs.ast))))

\* C15 (as claimed): once more time than timeout_ms has passed at the
\* reading after parsing or at the reading after expansion, the call has
\* failed with VerifierError and returns no boolean; and every call on
\* parseable input ends with a VerifierError or with the boolean of the zero
\* test of expand(lhs - rhs).
C15_OverrunFailsWithVerifierError ==
    /\ (v_loc # NoInput /\ Overrun) => v_pc = "done" /\ VerifyTimedOut
    /\ EndsInErrorOrZeroTest

\* C15, of the whole milliseconds the code compares: once the whole
\* milliseconds read exceed timeout_ms the call has failed with
\* VerifierError, a call that failed with the timeout message had such a
\* reading, and every call on parseable input ends one of the two ways.
C15_CountedOverrunFails ==
    /\ v_loc # NoInput =>
          ((\E i \in DOMAIN v_loc.checks :
                (v_loc.checks[i] \div TicksPerMs) * TicksPerMs > v_args.timeout)
             <=> (v_pc = "done" /\ VerifyTimedOut))
    /\ EndsInErrorOrZeroTest

\* C15 witness: the reading after expansion showed a whole millisecond
\* more than timeout_ms and the call threw although lhs and rhs are equal.
C15_Witness ==
    /\ v_pc = "done" /\ VerifyTimedOut
    /\ Len(v_loc.checks) = 2
    /\ v_loc.simplified = {}
    /\ v_args.lhs # v_args.rhs

(***************************************************************************)
(* The integrands outside the rule set, as the rule set is described: the  *)
(* shapes are read off the expression, not off integrate_basic.            *)
(***************************************************************************)
RECURSIVE OutsideRuleSet(_, _)
OutsideRuleSet(e, v) ==
    /\ has_symbol(e, v)
    /\ \/ e = Fn("Tan", Sym(v))
       \/ e.k \in {"Sin", "Cos"} /\ e.arg # Sym(v)
       \/ e.k = "Pow" /\ e.base # Sym(v) /\ e.base # Const("E")
       \/ e.k = "Pow" /\ e.base = Sym(v) /\ e.exp.k # "Int"
       \/ e.k = "Pow" /\ e.base = Const("E") /\ e.exp # Sym(v)
       \/ e.k = "Add" /\ \E i \in 1..Len(e.args) : OutsideRuleSet(e.args[i], v)

\* C16: integrate of an integrand outside the rule set (tan(v), sin or cos
\* of another argument than v, a power of a base that is neither v nor e,
\* v to a non-integer exponent, e to a v-dependent exponent other than v, a
\* sum with such a term) throws SymbolicError and returns nothing.
C16_UnsupportedIntegrandFails ==
    (s_op = "integrate" /\ s_expr.ok /\ OutsideRuleSet(s_expr.ast, s_var)) =>
        /\ s_res.kind = "throw"
        /\ s_res.ex.type = "SymbolicError"
        /\ s_res.ex.what[Len(s_res.ex.what)] = "Unsupported integrand"

\* C16 witness: integrate of x^2 + x^(1/2) + sin(x) by x threw although the
\* first and the last term have a rule.
C16_Witness ==
    /\ s_op = "integrate" /\ s_var = "x"
    /\ s_expr = Parsed(Add(<<Pow(Sym("x"), Int_(2)), Pow(Sym("x"), Rat(1, 2)),
                             Fn("Sin", Sym("x"))>>))
    /\ s_res.kind = "throw" /\ s_res.ex.type = "SymbolicError"

(***************************************************************************)
(* The factors of a product that hold v and those that do not, in the      *)
(* order of the product.                                                   *)
(***************************************************************************)
Dependent(args, v) == LET Holds(f) == has_symbol(f, v) IN SelectSeq(args, Holds)
Free(args, v) == LET Lacks(f) == ~has_symbol(f, v) IN SelectSeq(args, Lacks)

\* integrate returned a text that reads as the text of e does, up to
\* expansion.
IntegrateReturned(e) ==
    /\ s_res.kind = "return"
    /\ EqualUpToExpansion(ReadText(s_res.value), ReadText(to_string(e)))

IntegrateUnsupported ==
    /\ s_res.kind = "throw"
    /\ s_res.ex.type = "SymbolicError"
    /\ s_res.ex.what[Len(s_res.ex.what)] = "Unsupported integrand"

\* What C17 requires of integrate on the product of args by v, inner being
\* how the integration of the one factor holding v ended.
ProductRule(args, v, inner) ==
    IF Len(Dependent(args, v)) >= 2 THEN IntegrateUnsupported
    ELSE IF Len(Dependent(args, v)) = 0 THEN IntegrateReturned(Mul(Append(args, Sym(v))))
    ELSE IF inner.kind = "throw" THEN IntegrateUnsupported
    ELSE IntegrateReturned(Mul(Append(Free(args, v), inner.value)))

\* C17: integrate of a product with one factor D holding v returns the
\* product of the other factors times the integral of D (and fails when D
\* has no integral); with no factor holding v it returns the product times
\* v; with two or more it throws SymbolicError "Unsupported integrand", in
\* every order of the factors.
C17_ProductPartition ==
    (s_op = "integrate" /\ s_expr.ok /\ s_expr.ast.k = "Mul") =>
        ProductRule(s_expr.ast.args, s_var,
                    IF Len(Dependent(s_expr.ast.args, s_var)) = 1
                    THEN integrate_basic(Dependent(s_expr.ast.args, s_var)[1], s_var)
                    ELSE Unsupported)

\* C17 witness: integrate of y*cos(x)*(1/2) by x returned y*(1/2)*sin(x),
\* the factor holding x standing between the two others.
C17_Witness ==
    /\ s_op = "integrate" /\ s_var = "x"
    /\ s_expr = Parsed(Mul(<<Sym("y"), Fn("Cos", Sym("x")), Rat(1, 2)>>))
    /\ IntegrateReturned(Mul(<<Sym("y"), Rat(1, 2), Fn("Sin", Sym("x"))>>))

\* Two factors hold v, the one covered by a rule last, and integrate threw.
C17_TwoDependentFactors ==
    /\ s_op = "integrate" /\ s_var = "x"
    /\ s_expr = Parsed(Mul(<<Fn("Sin", Sym("x")), Sym("y"), Sym("x")>>))
    /\ IntegrateUnsupported

(***************************************************************************)
(* Failures of the right-hand side inside a step of solve_ivp.             *)
(***************************************************************************)
\* How the four evaluations of the step about to be taken end.
StepAhead == RK4(o_args.expr.ast, o_args.symbols, o_loc.h, o_loc.t, o_loc.y)

\* The call returned a result with success = false and a message.
ReturnedFailure(res) ==
    /\ res.kind = "return"
    /\ ~res.value.success
    /\ res.value.message # <<>>

\* C18 (as claimed): a step in which an evaluation of the right-hand side
\* fails (a NaN or an infinity, a count of state values that differs from
\* the count of state symbols, a symbol that is not in the symbols list)
\* ends the call with a returned result, success = false and a message; it
\* never throws.
C18_EvaluationFailureReturned ==
    [][(o_pc = "step" /\ StepAhead.kind = "throw") => ReturnedFailure(o_res')]_vars

\* The same for the failures evaluate itself raises, the NaN or infinity
\* and the mismatch of the counts.
C18_ODEErrorReturned ==
    [][(o_pc = "step" /\ StepAhead.kind = "throw" /\ StepAhead.ex.type = "ODEError")
          => /\ ReturnedFailure(o_res')
             /\ o_res'.value.message = <<"ODE evaluation failed: ">> \o StepAhead.ex.what]_vars

\* A symbol of the expression is not in the symbols list: the exception of
\* eval_double has left solve_ivp as an ODEError.
C18_UnknownSymbolThrown ==
    /\ o_pc = "done"
    /\ o_res = Throw(ODEError(<<"ODE integration failed: ", "Symbol cannot be evaluated.">>))

\* C19: a call whose four argument checks pass and whose expression cannot
\* be parsed throws ParseError: it neither throws ODEError nor returns a
\* result.
C19_ParseFailureThrowsParseError ==
    (o_pc = "done" /\ ~OdeArgumentsInvalid /\ ~o_args.expr.ok) =>
        /\ o_res.kind = "throw"
        /\ o_res.ex.type = "ParseError"
        /\ o_res.ex.what = <<"ParseError: ", "Failed to parse ODE expression: ">> \o ParserMessage
        /\ o_loc = NoInput

\* C19 witness: the checks passed, the expression was unparseable and the
\* call threw.
C19_Witness ==
    /\ o_pc = "done" /\ ~OdeArgumentsInvalid /\ ~o_args.expr.ok
    /\ o_res.kind = "throw"

(***************************************************************************)
(* Symbols without an entry in the dimension map.                          *)
(***************************************************************************)
UnitNames == {"x", "y", "z"}

RECURSIVE Occurrences(_, _), OccurrencesIn(_, _, _)
\* The number of leaves of e that are the symbol n (any symbol when n is
\* "*").
Occurrences(e, n) ==
    CASE e.k = "Sym" -> IF n \in {e.name, "*"} THEN 1 ELSE 0
      [] e.k \in {"Add", "Mul"} -> OccurrencesIn(e.args, 1, n)
      [] e.k = "Pow" -> Occurrences(e.base, n) + Occurrences(e.exp, n)
      [] e.k \in FuncKinds -> Occurrences(e.arg, n)
      [] OTHER -> 0

OccurrencesIn(args, i, n) ==
    IF i > Len(args) THEN 0
    ELSE Occurrences(args[i], n) + OccurrencesIn(args, i + 1, n)

\* The number of warnings of res that name the symbol n.
WarningsNaming(res, n) ==
    Cardinality({i \in DOMAIN res.warnings :
                    res.warnings[i] = <<"Unknown symbol dimension: ", n>>})

\* e is built only from symbols without an entry in dims, literals,
\* products, integer powers and the elementary functions.
RECURSIVE OnlyUnknown(_, _)
OnlyUnknown(e, dims) ==
    CASE e.k = "Sym" -> e.name \notin DOMAIN dims
      [] e.k \in {"Int", "Rat"} -> TRUE
      [] e.k = "Mul" -> \A i \in 1..Len(e.args) : OnlyUnknown(e.args[i], dims)
      [] e.k = "Pow" -> e.exp.k = "Int" /\ OnlyUnknown(e.base, dims)
      [] e.k \in FuncKinds -> OnlyUnknown(e.arg, dims)
      [] OTHER -> FALSE

\* Every leaf of e was visited: no sum stopped at a term that did not match.
AllVisited(e, res) ==
    \/ res.errors = <<>>
    \/ \A t \in Subterms(e) : t.k # "Add"

\* C20: unit_check warns once, by name, for every visited occurrence of a
\* symbol without an entry in the map and never for a symbol with one; an
\* expression of such symbols, literals, products, integer powers and
\* elementary functions alone returns ok = true, no error, the
\* dimensionless result and one warning for each occurrence of a symbol.
C20_UnknownSymbolWarnsOnly ==
    UnitReturned =>
        /\ \A n \in UnitNames :
              IF n \in DOMAIN u_dims
              THEN WarningsNaming(u_res, n) = 0
              ELSE /\ WarningsNaming(u_res, n) <= Occurrences(u_expr.ast, n)
                   /\ AllVisited(u_expr.ast, u_res) =>
                         WarningsNaming(u_res, n) = Occurrences(u_expr.ast, n)
        /\ OnlyUnknown(u_expr.ast, u_dims) =>
              /\ u_res.ok
              /\ u_res.errors = <<>>
              /\ u_res.inferred.result = Dimensionless
              /\ Len(u_res.warnings) = Occurrences(u_expr.ast, "*")

\* C20 witness: unit_check of (1/2) * x * y^2 with the empty map returned
\* ok with the warnings for x and y and the dimensionless result.
C20_Witness ==
    /\ UnitReturned
    /\ u_dims = <<>>
    /\ u_expr = Parsed(Mul(<<Rat(1, 2), Sym("x"), Pow(Sym("y"), Int_(2))>>))
    /\ u_res.ok /\ u_res.inferred.result = Dimensionless
    /\ u_res.warnings = <<<<"Unknown symbol dimension: ", "x">>,
                          <<"Unknown symbol dimension: ", "y">>>>

(***************************************************************************)
(* probe_equal: the returned ProbeResult.                                  *)
(***************************************************************************)
ProbeReturned == p_pc = "done" /\ p_res.kind = "return"

\* The trials of res whose recorded error is infinite or above threshold.
ErrorsAbove(res, threshold) ==
    {i \in DOMAIN res.max_errors :
        isinf(res.max_errors[i]) \/ FGreater(res.max_errors[i], threshold)}

\* The trials the loop counted: those that took a continue branch and
\* those whose error compared greater than threshold.
TrialsCounted(res, invalid, threshold) ==
    {i \in DOMAIN res.max_errors : invalid[i] \/ FGreater(res.max_errors[i], threshold)}

\* trials_executed, the length of max_errors, the range of failures, equal.
ProbeResultShape ==
    /\ p_res.value.trials_executed = p_args.trials
    /\ Len(p_res.value.max_errors) = p_args.trials
    /\ p_res.value.failures \in 0..p_args.trials
    /\ p_res.value.equal <=> (p_res.value.failures = 0)

\* C21 (as claimed): a returned ProbeResult has trials_executed = N, N
\* elements in max_errors, failures in 0..N, equal exactly when failures is
\* 0, and failures is the number of trials whose recorded error is infinite
\* or greater than the threshold.
C21_FailuresCountErrorsAbove ==
    ProbeReturned =>
        /\ ProbeResultShape
        /\ p_res.value.failures = Cardinality(ErrorsAbove(p_res.value, p_args.threshold))

\* C21 (amended): the same, failures being the number of trials in which an
\* evaluation threw or was not finite or whose error compared greater than
\* the threshold; that is the number of recorded errors that are infinite
\* or greater than the threshold whenever the threshold is finite.
C21_FailuresCountTrialsJudged ==
    ProbeReturned =>
        /\ ProbeResultShape
        /\ p_res.value.failures =
              Cardinality(TrialsCounted(p_res.value, p_loc.invalid, p_args.threshold))
        /\ \A i \in DOMAIN p_loc.invalid : p_loc.invalid[i] => p_res.value.max_errors[i] = Inf(1)
        /\ isfinite(p_args.threshold) =>
              p_res.value.failures =
                 Cardinality(ErrorsAbove(p_res.value, p_args.threshold))

\* C21 witness: two trials returned, one counted and one not, the error of
\* the one not counted being finite and not zero.
C21_Witness ==
    /\ ProbeReturned
    /\ p_res.value.trials_executed = 2 /\ p_res.value.failures = 1
    /\ \E i \in 1..2 :
          /\ isfinite(p_res.value.max_errors[i])
          /\ p_res.value.max_errors[i] # Zero
          /\ ~FGreater(p_res.value.max_errors[i], p_args.threshold)

\* Both sides were finite, their difference was not: the error recorded is
\* infinite and, the threshold being infinite, the trial was not counted.
C21_InfiniteErrorNotCounted ==
    /\ ProbeReturned
    /\ p_res.value.failures = 0 /\ p_res.value.equal
    /\ \E i \in DOMAIN p_res.value.max_errors : p_res.value.max_errors[i] = Inf(1)

\* The point of the trial is complete and an evaluation of a side at it
\* throws or gives a value that is not finite.
Threw(val) == val.kind = "throw"
NotFinite(val) == val.kind = "return" /\ ~isfinite(val.value)
EvaluationFails(lhs_val, rhs_val) ==
    Threw(lhs_val) \/ Threw(rhs_val) \/ NotFinite(lhs_val) \/ NotFinite(rhs_val)
TrialFails ==
    /\ p_pc = "draw" /\ p_loc.i > Len(p_args.symbols)
    /\ EvaluationFails(evaluate_at_point(p_args.lhs.ast, p_loc.point),
                       evaluate_at_point(p_args.rhs.ast, p_loc.point))

\* C22: a trial in which an evaluation throws or is not finite pushes an
\* infinite error, adds one to failures, throws nothing and goes on to the
\* next trial (to the return after the last); a call that reached its
\* trials returns a result with all of them made.
C22_FailedEvaluationIsRecorded ==
    /\ [][TrialFails =>
            /\ p_loc'.max_errors = Append(p_loc.max_errors, Inf(1))
            /\ p_loc'.failures = p_loc.failures + 1
            /\ p_loc'.trial = p_loc.trial + 1
            /\ p_res' = p_res
            /\ p_pc' = IF p_loc.trial + 1 < p_args.trials THEN "draw" ELSE "return"]_vars
    /\ []((p_pc = "done" /\ ~ArgumentsInvalid /\ p_args.lhs.ok /\ p_args.rhs.ok) =>
            /\ p_res.kind = "return"
            /\ Len(p_res.value.max_errors) = p_args.trials)

\* C22 witness: the first of two trials failed in an evaluation, the second
\* was made and did not, and the call returned failures = 1 or 2.
C22_Witness ==
    /\ ProbeReturned
    /\ p_loc.invalid = <<TRUE, FALSE>>
    /\ p_res.value.max_errors[1] = Inf(1)
    /\ p_res.value.failures >= 1

\* The evaluation that failed threw for a symbol that is not in the list.
C22_MissingSymbol ==
    /\ ProbeReturned
    /\ p_loc.invalid = <<TRUE, TRUE>>
    /\ p_args.lhs = Parsed(Add(<<Sym("x"), Sym("y")>>)) /\ p_args.symbols = <<"x">>
    /\ p_res.value.failures = 2

\* C23: a call of solve_ivp that differs from the previous one in rtol and
\* atol only ends as that one did: the same success, t_values, y_values,
\* steps_taken and message (or the same exception).
C23_TolerancesIgnored ==
    (o_calls = 2 /\ o_pc = "done") => o_res = o_first

\* C23 witness: the second call, with other tolerances, returned a
\* successful run of more than one step.
C23_Witness ==
    /\ o_calls = 2 /\ OdeReturned
    /\ o_args.rtol \in {Zero, NaN}
    /\ o_res.value.success /\ o_res.value.steps_taken > 1
    /\ o_first = o_res

\* The components of y0 and of y stand in the same order: equal where
\* those of y0 are equal, not above where those of y0 are not above (all
\* NaN when the increment of a step was a NaN).
SameOrder(y0, y) ==
    \A i, j \in DOMAIN y0 :
        /\ y0[i] = y0[j] => y[i] = y[j]
        /\ FLessEq(y0[i], y0[j]) => FLessEq(y[i], y[j]) \/ (isnan(y[i]) /\ isnan(y[j]))

\* C24: a step of solve_ivp adds one scalar, the increment
\* (h/6)(k1 + 2 k2 + 2 k3 + k4), to every component of y; hence the
\* components of every recorded point with more than one component stand
\* as those of y0 do (their differences are those of y0 but for the
\* rounding of the additions).
C24_SameIncrementForAllComponents ==
    /\ [][(o_pc = "step" /\ StepAhead.kind = "return") =>
             /\ Len(o_loc'.y) = Len(o_loc.y)
             /\ \A i \in DOMAIN o_loc.y : o_loc'.y[i] = FAdd(o_loc.y[i], StepAhead.value)]_vars
    /\ [](OdeReturned =>
             \A n \in DOMAIN o_res.value.y_values :
                 SameOrder(o_args.y0, o_res.value.y_values[n]))

\* C24 witness: a run from a y0 of two different components returned more
\* than one step, its last point differing from y0.
C24_Witness ==
    /\ OdeReturned /\ o_res.value.success
    /\ Len(o_args.y0) = 2 /\ o_args.y0[1] # o_args.y0[2]
    /\ o_res.value.steps_taken > 1
    /\ o_res.value.y_values[Len(o_res.value.y_values)][1] # o_args.y0[1]
    /\ o_res.value.y_values[Len(o_res.value.y_values)][2] # o_args.y0[2]

\* The loop of solve_ivp is bounded: the passes made never exceed
\* max_steps, and a pass ends the loop or is counted.
LoopBounded ==
    /\ [](o_loc # NoInput =>
             /\ o_loc.step <= o_args.max_steps
             /\ o_loc.result.steps_taken <= o_args.max_steps
             /\ o_pc = "step" => o_loc.step < o_args.max_steps)
    /\ [][o_pc = "step" =>
             \/ o_pc' \in {"done", "finish"}
             \/ o_pc' = "step" /\ o_loc'.step = o_loc.step + 1]_vars

\* steps_taken and the number of recorded points are within max_steps and
\* max_steps + 1.
StepsWithin(res, max_steps) ==
    /\ 0 <= res.steps_taken /\ res.steps_taken <= max_steps
    /\ Len(res.t_values) <= max_steps + 1

\* C25 (as claimed): every returned result has 0 <= steps_taken <=
\* max_steps and at most max_steps + 1 recorded times, and a successful
\* run has steps_taken >= 1.
C25_StepsWithinMaxSteps ==
    OdeReturned =>
        /\ StepsWithin(o_res.value, o_args.max_steps)
        /\ o_res.value.success => o_res.value.steps_taken >= 1

\* C25 (amended): the loop makes max_steps passes at most; every result
\* returned for max_steps >= 0 has 0 <= steps_taken <= max_steps and at
\* most max_steps + 1 recorded times, a call rejected for max_steps < 0
\* returns steps_taken = 0 and no recorded time, and a successful run has
\* steps_taken >= 1.
C25_StepsBounded ==
    /\ LoopBounded
    /\ [](OdeReturned =>
             /\ o_args.max_steps >= 0 => StepsWithin(o_res.value, o_args.max_steps)
             /\ o_args.max_steps < 0 =>
                   o_res.value.steps_taken = 0 /\ o_res.value.t_values = <<>>
             /\ o_res.value.success =>
                   o_res.value.steps_taken >= 1 /\ ~OdeArgumentsInvalid)

\* C25 witness: a run that did not reach t1 ended successfully after
\* exactly max_steps steps.
C25_Witness ==
    /\ OdeReturned /\ o_res.value.success
    /\ o_res.value.steps_taken = o_args.max_steps
    /\ o_args.max_steps = MaxSteps
    /\ Len(o_res.value.t_values) = MaxSteps + 1
    /\ FLess(o_res.value.t_values[MaxSteps + 1], FSub(o_args.t1, EndTolerance))

(***************************************************************************)
(* cli.cpp: main, the command integrate.  What the process wrote and       *)
(* returned once integrate ended as the outcome res.                       *)
(***************************************************************************)
cli_main(res) ==
    IF res.kind = "throw"
    THEN [stdout |-> <<>>, stderr |-> res.ex.what, status |-> 1]
    ELSE [stdout |-> res.value, stderr |-> <<>>, status |-> 0]

\* integrate was called on a parseable integrand that no rule covers.
NoRuleApplies ==
    /\ s_op = "integrate" /\ s_expr.ok
    /\ integrate_basic(s_expr.ast, s_var) = Unsupported

\* C26 (as claimed): when no rule applies, integrate throws a SymbolicError
\* and the text the CLI writes to standard error is the kind once and the
\* message: "SymbolicError: Unsupported integrand".
C26_KindPrefixOnce ==
    NoRuleApplies =>
        /\ s_res.kind = "throw" /\ s_res.ex.type = "SymbolicError"
        /\ cli_main(s_res).stderr = <<"SymbolicError: ", "Unsupported integrand">>

\* What is written instead: the SymbolicError of the rule set is caught by
\* the std::exception handler of integrate and wrapped in a second one.
C26_KindPrefixTwice ==
    NoRuleApplies =>
        /\ s_res.kind = "throw" /\ s_res.ex.type = "SymbolicError"
        /\ cli_main(s_res) =
              [stdout |-> <<>>, status |-> 1,
               stderr |-> <<"SymbolicError: ", "SymbolicError: ", "Unsupported integrand">>]

\* integrate of tan(x) by x was called and no rule applied.
C26_Reached == NoRuleApplies /\ s_expr = Parsed(Fn("Tan", Sym("x"))) /\ s_var = "x"

\* t >= t1 - 1e-10, the test of the break.
ReachedEnd(t) == FGreaterEq(t, FSub(o_args.t1, EndTolerance))

\* The first recorded point is (t0, y0).
StartsAtInitialPoint(res) ==
    /\ Len(res.t_values) >= 1 /\ Len(res.y_values) >= 1
    /\ res.t_values[1] = o_args.t0 /\ res.y_values[1] = o_args.y0

\* No point is recorded after a step that reached the end.
StopsAtEnd(res) == \A n \in 2..(Len(res.t_values) - 1) : ~ReachedEnd(res.t_values[n])

\* C27 (as claimed): a successful result starts at (t0, y0), its last
\* recorded t is at least t1 - 1e-10, and no point is recorded after the
\* first step that reached t1 - 1e-10.
C27_SuccessReachesEnd ==
    (OdeReturned /\ o_res.value.success) =>
        /\ StartsAtInitialPoint(o_res.value)
        /\ ReachedEnd(o_res.value.t_values[Len(o_res.value.t_values)])
        /\ StopsAtEnd(o_res.value)

\* What holds of a successful result: it starts at (t0, y0), records
\* nothing after a step that reached the end, and its last t reached the
\* end or max_steps steps were made.
C27_SuccessReachesEndOrMaxSteps ==
    (OdeReturned /\ o_res.value.success) =>
        /\ StartsAtInitialPoint(o_res.value)
        /\ StopsAtEnd(o_res.value)
        /\ \/ ReachedEnd(o_res.value.t_values[Len(o_res.value.t_values)])
           \/ o_res.value.steps_taken = o_args.max_steps

\* A run on an interval where t + h rounds to t made max_steps steps and
\* returned success with every recorded t equal to t0.
C27_SuccessShortOfEnd ==
    /\ OdeReturned /\ o_res.value.success
    /\ o_res.value.steps_taken = o_args.max_steps
    /\ \A n \in DOMAIN o_res.value.t_values : o_res.value.t_values[n] = o_args.t0
    /\ ~ReachedEnd(o_args.t0)

(***************************************************************************)
(* probe_equal: the values given to the symbols.                           *)
(***************************************************************************)
InDomain(value) == FLessEq(p_args.dmin, value) /\ FLessEq(value, p_args.dmax)
AwayFromZero(value) == ~FLess(FAbs(value), NearZero)

\* C28 (as claimed): every value given to a symbol lies in [dmin, dmax] and
\* is at least 1e-10 in absolute value, the replacement dmin + 0.1 of a
\* draw near zero included.
C28_ValuesInDomainAwayFromZero ==
    (p_loc # NoInput /\ p_pc \in {"draw", "return", "done"}) =>
        \A n \in DOMAIN p_loc.point :
            InDomain(p_loc.point[n]) /\ AwayFromZero(p_loc.point[n])

\* What holds of the values: each is a draw of the distribution, in
\* [dmin, dmax] and away from zero, or it is dmin + 0.1.
C28_ValuesDrawnOrReplaced ==
    (p_loc # NoInput /\ p_pc \in {"draw", "return", "done"}) =>
        \A n \in DOMAIN p_loc.point :
            \/ InDomain(p_loc.point[n]) /\ AwayFromZero(p_loc.point[n])
            \/ p_loc.point[n] = FAdd(p_args.dmin, Tenth)

\* A draw near zero on [0, 1/16] was replaced by 0.1, above dmax.
C28_ReplacementOutsideDomain ==
    /\ p_pc = "draw" /\ p_args.dmin = Zero
    /\ \E n \in DOMAIN p_loc.point :
          p_loc.point[n] = Tenth /\ FGreater(p_loc.point[n], p_args.dmax)

\* A draw of zero on [-0.1, 0.1] was replaced by -0.1 + 0.1, zero again.
C28_ReplacementIsZero ==
    /\ p_pc = "draw" /\ p_args.dmin = FNeg(Tenth)
    /\ \E n \in DOMAIN p_loc.point : p_loc.point[n] = Zero

(***************************************************************************)
(* solve_ivp: the ways a returned result came about, by its message.       *)
(***************************************************************************)
CompletedMessage == <<"Integration completed successfully">>
EndedInEvaluationFailure(res) ==
    Len(res.message) >= 1 /\ res.message[1] = "ODE evaluation failed: "
EndedInRejection(res) ==
    res.message \in {<<"t1 must be greater than t0">>,
                     <<"Initial conditions y0 cannot be empty">>,
                     <<"Symbols list cannot be empty">>,
                     <<"max_steps must be positive">>}

\* C29: in every returned result t_values and y_values have the same
\* length; that length is steps_taken + 1 after a success or an evaluation
\* failure inside a step, steps_taken after an explosion, and both are 0
\* after a rejected argument; success = true only comes with the message
\* "Integration completed successfully".
C29_LengthsAndStepsAgree ==
    OdeReturned =>
        LET res == o_res.value
        IN  /\ Len(res.t_values) = Len(res.y_values)
            /\ res.success <=> res.message = CompletedMessage
            /\ \/ res.success /\ Len(res.t_values) = res.steps_taken + 1
               \/ /\ ~res.success /\ EndedInEvaluationFailure(res)
                  /\ Len(res.t_values) = res.steps_taken + 1
               \/ /\ ~res.success /\ res.message = ExplodedMessage
                  /\ Len(res.t_values) = res.steps_taken /\ res.steps_taken >= 1
               \/ /\ ~res.success /\ EndedInRejection(res)
                  /\ Len(res.t_values) = 0 /\ res.steps_taken = 0

\* C29 witness: an evaluation failed in a step after the first; the points
\* of the steps before it are in the result.
C29_Witness ==
    /\ OdeReturned /\ EndedInEvaluationFailure(o_res.value)
    /\ o_res.value.steps_taken >= 1
    /\ Len(o_res.value.t_values) = o_res.value.steps_taken + 1

\* |val| <= 1e10
WithinThreshold(val) == FLessEq(FAbs(val), explosion_threshold)

\* The points of res recorded after a step.
RecordedAfterStep(res) == 2..Len(res.y_values)

\* C30 (as claimed): in every returned result each component of every
\* recorded state but the initial one is at most 1e10 in absolute value.
C30_RecordedStatesWithinThreshold ==
    OdeReturned =>
        \A n \in RecordedAfterStep(o_res.value) :
            \A i \in DOMAIN o_res.value.y_values[n] :
                WithinThreshold(o_res.value.y_values[n][i])

\* What holds of them: none compares greater than 1e10 in absolute value,
\* which a NaN does not either.
C30_RecordedStatesNotBeyondThreshold ==
    OdeReturned =>
        \A n \in RecordedAfterStep(o_res.value) :
            \A i \in DOMAIN o_res.value.y_values[n] :
                \/ WithinThreshold(o_res.value.y_values[n][i])
                \/ isnan(o_res.value.y_values[n][i])

\* A run from finite y0 over an infinite interval recorded a NaN and
\* returned success.
C30_NaNRecorded ==
    /\ OdeReturned /\ o_res.value.success
    /\ o_args.y0 = <<FromInt(1)>> /\ o_args.t1 = Inf(1)
    /\ isnan(o_res.value.y_values[2][1])

====
